---- MODULE Spec2Model ----
(***************************************************************************)
(* A model of the Trees interpreter: the intermediate bytecode codec       *)
(* (src/src/intermed_repr.rs), the 2-D grid parser                         *)
(* (src/trees-lang/src/compile.rs), the evaluator                          *)
(* (src/src/structs/block.rs, exec_env.rs, executor/predefined.rs) and     *)
(* the command-line program (src/trees/src/main.rs).                       *)
(* Each component has its own specification over the shared variables;     *)
(* the variables of the other components stay at their idle values.        *)
(***************************************************************************)
EXTENDS Integers, Sequences, FiniteSets, TLC

VARIABLES
  build,      \* "debug" | "release": overflow checks on or off (rustc profile)
  cpc,        \* codec: "idle" | "start" | "encoding" | "encoded" | "decoding" | "decoded"
  tree,       \* codec: the Block handed to to_intermed_repr
  code,       \* codec: the bytes written by to_intermed_repr (its ret)
  estack,     \* codec: the stack of to_intermed_repr
  dec,        \* codec: Option of the loop state of from_intermed_repr
  decoded,    \* codec: Option of the outcome of from_intermed_repr
  pin,        \* parser: the arguments of compile, [lines, mode]
  ppc,        \* parser: the position in compile and connect_blocks
  splited_code, \* parser: the SplitedCode of compile
  blocks,     \* parser: the Vec<CompilingBlock> of compile
  conn,       \* parser: the locals of connect_blocks
  presult,    \* parser: Option of the value returned by connect_blocks
  compiled,   \* parser: Option of the value returned by compile
  epc,        \* evaluator: "idle" | "load" | "run" | "done"
  prog,       \* evaluator: the program, [kind, roots]
  exec_env,   \* evaluator: the ExecuteEnv, [heap, scopes, out]
  kont,       \* evaluator: the call stack, innermost last
  ctl,        \* evaluator: what is done next
  elog,       \* evaluator: the children evaluated and calls made in this run
  nfid,       \* evaluator: the number of execute_without_scope frames so far
  runs,       \* evaluator: the outcome of each finished run
  cli,        \* main: the parsed command line, [mode, input]
  cmd_mode,   \* main: the local cmd_mode
  mpc,        \* main: the position in main
  walk,       \* main: the files WalkDir has still to yield
  stderr,     \* main: the messages written to stderr
  exit_code   \* main: Option of the exit status of the process

codecVars == <<cpc, tree, code, estack, dec, decoded>>
parseVars == <<pin, ppc, splited_code, blocks, conn, presult, compiled>>
evalVars == <<epc, prog, exec_env, kont, ctl, elog, nfid, runs>>
mainVars == <<cli, cmd_mode, mpc, walk, stderr, exit_code>>
vars == <<build, cpc, tree, code, estack, dec, decoded,
          pin, ppc, splited_code, blocks, conn, presult, compiled,
          epc, prog, exec_env, kont, ctl, elog, nfid, runs,
          cli, cmd_mode, mpc, walk, stderr, exit_code>>

(***************************************************************************)
(* Generic helpers.  Option<T> is a sequence of length 0 or 1.             *)
(***************************************************************************)
None == <<>>
Some(x) == <<x>>
Last(s) == s[Len(s)]
Front(s) == SubSeq(s, 1, Len(s) - 1)
Reverse(s) == [i \in 1..Len(s) |-> s[Len(s) + 1 - i]]
Min(a, b) == IF a < b THEN a ELSE b
Builds == {"debug", "release"}

\* the codec at rest
CodecIdle ==
  /\ cpc = "idle"
  /\ tree = <<>>
  /\ code = <<>>
  /\ estack = <<>>
  /\ dec = <<>>
  /\ decoded = <<>>

\* main at rest
MainIdle ==
  /\ cli = <<>>
  /\ cmd_mode = "Auto"
  /\ mpc = "idle"
  /\ walk = <<>>
  /\ stderr = <<>>
  /\ exit_code = <<>>

\* the evaluator at rest
EvalIdle ==
  /\ epc = "idle"
  /\ prog = <<>>
  /\ exec_env = <<>>
  /\ kont = <<>>
  /\ ctl = [m |-> "idle"]
  /\ elog = <<>>
  /\ nfid = 0
  /\ runs = <<>>

\* the parser at rest
ParseIdle ==
  /\ pin = <<>>
  /\ ppc = "idle"
  /\ splited_code = <<>>
  /\ blocks = <<>>
  /\ conn = <<>>
  /\ presult = <<>>
  /\ compiled = <<>>

(***************************************************************************)
(* Bounds of the codec inputs.                                             *)
(***************************************************************************)
MaxNodes == 3       \* every tree shape with at most this many nodes
MaxWide == 257      \* flat trees with up to this many children of the root

(***************************************************************************)
(* The codec: src/src/intermed_repr.rs                                     *)
(***************************************************************************)
U8Mod == 256
QuoteStyles == {"None", "Quote", "Closure"}
ProcNameBytes == {<<>>, <<97, 98>>}

\* u32::to_be_bytes
to_be_bytes(n) ==
  << (n \div 16777216) % 256, (n \div 65536) % 256, (n \div 256) % 256, n % 256 >>

\* u32::from_be_bytes
from_be_bytes(b) == b[1] * 16777216 + b[2] * 65536 + b[3] * 256 + b[4]

\* enum BlockType as u8
BlockType(q) ==
  CASE q = "None" -> 1
    [] q = "Quote" -> 2
    [] q = "Closure" -> 3

\* enum ArgPlugType as u8
ArgPlugType(expand) == IF expand THEN 1 ELSE 0

\* the version byte and the header length, (1 + 4_u32).to_be_bytes()
ByteCodeVersion == 1
HeaderLen == 1 + 4

\* a loop body that pushes the children in their own order, so that the last
\* child is popped first
EncodeLoopBodyForward(stack, ret) ==
  LET seeing == Last(stack)
      n == Len(seeing.args)
  IN [stack |-> Front(stack) \o [i \in 1..n |-> seeing.args[i].block],
      ret |-> ret \o <<BlockType(seeing.quote)>>
                  \o to_be_bytes(Len(seeing.proc_name))
                  \o seeing.proc_name
                  \o << n % U8Mod >>
                  \o [i \in 1..n |-> ArgPlugType(seeing.args[i].expand)]]

\* one iteration of the while-let loop of to_intermed_repr: stack is the
\* Vec<&Block> (top last), ret the output so far
EncodeLoopBody(stack, ret) ==
  LET seeing == Last(stack)
      n == Len(seeing.args)
  IN [stack |-> Front(stack) \o [i \in 1..n |-> seeing.args[n + 1 - i].block],
      ret |-> ret \o <<BlockType(seeing.quote)>>
                  \o to_be_bytes(Len(seeing.proc_name))
                  \o seeing.proc_name
                  \o << n % U8Mod >>
                  \o [i \in 1..n |-> ArgPlugType(seeing.args[i].expand)]]

\* to_intermed_repr before its loop: the header, and the root on the stack
EncodeHeader == <<ByteCodeVersion>> \o to_be_bytes(HeaderLen)

Panic == [ok |-> FALSE]

\* One node record read from position pos (1-based) of bytes c: the block type,
\* read_u32 + read_string for the name, the argument count and the flags.
\* A missing byte or an unknown value panics (expect / panic!); read_string
\* takes at most the bytes that are left.
ReadNode(c, pos) ==
  IF pos > Len(c) \/ pos + 4 > Len(c) THEN Panic
  ELSE IF c[pos] \notin {1, 2, 3} THEN Panic
  ELSE
    LET len == from_be_bytes(SubSeq(c, pos + 1, pos + 4))
        taken == Min(len, Len(c) - (pos + 4))
        name == SubSeq(c, pos + 5, pos + 4 + taken)
        p2 == pos + 5 + taken
    IN IF p2 > Len(c) THEN Panic
       ELSE
         LET arg_count == c[p2] IN
         IF p2 + arg_count > Len(c) THEN Panic
         ELSE IF \E i \in 1..arg_count : c[p2 + i] \notin {0, 1} THEN Panic
         ELSE [ok |-> TRUE,
               quote |-> CASE c[pos] = 1 -> "None" [] c[pos] = 2 -> "Quote" [] c[pos] = 3 -> "Closure",
               proc_name |-> name,
               arg_count |-> arg_count,
               types |-> [i \in 1..arg_count |-> c[p2 + i] = 1],
               pos |-> p2 + arg_count + 1]

\* one iteration of the while-let loop of from_intermed_repr: stack is the
\* Vec<(Block, usize)> (top last), arg_types the pending expand flags (top
\* last), last_root the Option<Block>
DecodeLoopBody(c, pos, stack, arg_types, last_root) ==
  LET parent == Last(stack)
      rest == Front(stack)
      go(p, st, at, lr) == [ok |-> TRUE, pos |-> p, stack |-> st, arg_types |-> at, last_root |-> lr]
  IN
  IF parent.remaining = 0 THEN
    IF rest # <<>> THEN
      IF arg_types = <<>> THEN Panic
      ELSE go(pos,
              [rest EXCEPT ![Len(rest)].block.args =
                 Append(@, [expand |-> Last(arg_types), block |-> parent.block])],
              Front(arg_types), last_root)
    ELSE go(pos, rest, arg_types, Some(parent.block))
  ELSE
    LET node == ReadNode(c, pos) IN
    IF ~node.ok THEN Panic
    ELSE
      LET child == [proc_name |-> node.proc_name, quote |-> node.quote, args |-> <<>>]
          types2 == arg_types \o Reverse(node.types)
          stack2 == Append(rest, [block |-> parent.block, remaining |-> parent.remaining - 1])
      IN
      IF node.arg_count > 0 THEN
        go(node.pos, Append(stack2, [block |-> child, remaining |-> node.arg_count]),
           types2, last_root)
      ELSE
        go(node.pos,
           [stack2 EXCEPT ![Len(stack2)].block.args =
              Append(@, [expand |-> Last(types2), block |-> child])],
           Front(types2), last_root)

\* from_intermed_repr before its loop: the version byte, the header length
\* (header_len - 5 is a u32 subtraction; code.take(..) builds a lazy adapter
\* that is dropped unread, so it consumes no byte), the root record.
DecodeHeader(c, b) ==
  IF Len(c) < 5 THEN Panic
  ELSE
    LET header_len == from_be_bytes(SubSeq(c, 2, 5)) IN
    IF header_len < 5 /\ b = "debug" THEN Panic
    ELSE
      LET root == ReadNode(c, 6) IN
      IF ~root.ok THEN Panic
      ELSE [ok |-> TRUE, pos |-> root.pos,
            stack |-> << [block |-> [proc_name |-> root.proc_name, quote |-> root.quote,
                                     args |-> <<>>],
                          remaining |-> root.arg_count] >>,
            arg_types |-> Reverse(root.types), last_root |-> None]

(***************************************************************************)
(* Inputs of the codec: every Block with at most MaxNodes nodes, and the   *)
(* flat trees whose root has U8Mod-2 .. MaxWide leaf children.             *)
(***************************************************************************)
RECURSIVE TreesOfSize(_), Forests(_)
TreesOfSize(n) ==
  { [proc_name |-> nm, quote |-> q, args |-> f] :
      nm \in ProcNameBytes, q \in QuoteStyles, f \in Forests(n - 1) }

Forests(m) ==
  IF m = 0 THEN { <<>> }
  ELSE UNION { { <<[expand |-> e, block |-> t]>> \o f :
                   e \in BOOLEAN, t \in TreesOfSize(k), f \in Forests(m - k) } :
               k \in 1..m }

Leaf == [proc_name |-> <<>>, quote |-> "None", args |-> <<>>]
WideTree(k) ==
  [proc_name |-> <<97, 98>>, quote |-> "None",
   args |-> [i \in 1..k |-> [expand |-> (i % 2 = 0), block |-> Leaf]]]

\* a root whose first child has a child of its own: the four nodes differ in
\* name and kind
Bushy ==
  [proc_name |-> <<97, 98>>, quote |-> "None",
   args |-> << [expand |-> FALSE,
                block |-> [proc_name |-> <<99>>, quote |-> "Quote",
                           args |-> << [expand |-> TRUE,
                                        block |-> [proc_name |-> <<100, 101, 102>>,
                                                   quote |-> "Closure", args |-> <<>>]] >>]],
               [expand |-> TRUE,
                block |-> [proc_name |-> <<>>, quote |-> "None", args |-> <<>>]] >>]

CodecInputs ==
  UNION { TreesOfSize(n) : n \in 1..MaxNodes }
    \cup { WideTree(k) : k \in (U8Mod - 2)..MaxWide }
    \cup { Bushy }

\* to_intermed_repr: the header, then the loop until the stack is empty
RECURSIVE EncodeLoop(_, _)
EncodeLoop(stack, ret) ==
  IF stack = <<>> THEN ret
  ELSE EncodeLoop(EncodeLoopBody(stack, ret).stack, EncodeLoopBody(stack, ret).ret)

to_intermed_repr(t) == EncodeLoop(<<t>>, EncodeHeader)

\* reserved bytes after the header-length field: one zero byte, and six
\* bytes that read as the record of a childless node
ReservedBytes == { <<0>>, <<1, 0, 0, 0, 0, 0>> }

\* a bytecode with a longer header: the version, the header length, the
\* reserved bytes, and the node records of t
Received(t, reserved) ==
  <<ByteCodeVersion>> \o to_be_bytes(HeaderLen + Len(reserved)) \o reserved
    \o SubSeq(to_intermed_repr(t), HeaderLen + 1, Len(to_intermed_repr(t)))

\* a tree that is encoded and then decoded, or a bytecode with a longer
\* header that is decoded, with the tree its records stand for
InitCodec ==
  /\ build \in Builds
  /\ tree \in CodecInputs
  /\ \E reserved \in {<<>>} \cup ReservedBytes :
       IF reserved = <<>>
       THEN /\ cpc = "start"
            /\ code = <<>>
       ELSE /\ cpc = "received"
            /\ Len(tree.args) <= MaxNodes
            /\ code = Received(tree, reserved)
  /\ estack = <<>>
  /\ dec = None
  /\ decoded = None
  /\ ParseIdle
  /\ EvalIdle
  /\ MainIdle

\* to_intermed_repr up to its loop
EncodeStart ==
  /\ cpc = "start"
  /\ code' = EncodeHeader
  /\ estack' = <<tree>>
  /\ cpc' = "encoding"
  /\ UNCHANGED <<build, tree, dec, decoded>>
  /\ UNCHANGED parseVars
  /\ UNCHANGED evalVars
  /\ UNCHANGED mainVars

\* one iteration of the loop; the loop ends when the stack is empty
EncodeStep ==
  /\ cpc = "encoding"
  /\ estack # <<>>
  /\ LET r == EncodeLoopBody(estack, code) IN
       /\ estack' = r.stack
       /\ code' = r.ret
  /\ UNCHANGED <<build, cpc, tree, dec, decoded>>
  /\ UNCHANGED parseVars
  /\ UNCHANGED evalVars
  /\ UNCHANGED mainVars

EncodeReturn ==
  /\ cpc = "encoding"
  /\ estack = <<>>
  /\ cpc' = "encoded"
  /\ UNCHANGED <<build, tree, code, estack, dec, decoded>>
  /\ UNCHANGED parseVars
  /\ UNCHANGED evalVars
  /\ UNCHANGED mainVars

\* from_intermed_repr up to its loop
DecodeStart ==
  /\ cpc \in {"encoded", "received"}
  /\ LET r == DecodeHeader(code, build) IN
       IF r.ok THEN /\ dec' = Some(r)
                    /\ cpc' = "decoding"
                    /\ UNCHANGED decoded
       ELSE /\ decoded' = Some(Panic)
            /\ cpc' = "decoded"
            /\ UNCHANGED dec
  /\ UNCHANGED <<build, tree, code, estack>>
  /\ UNCHANGED parseVars
  /\ UNCHANGED evalVars
  /\ UNCHANGED mainVars

\* one iteration of the loop
DecodeStep ==
  /\ cpc = "decoding"
  /\ dec[1].stack # <<>>
  /\ LET d == dec[1]
         r == DecodeLoopBody(code, d.pos, d.stack, d.arg_types, d.last_root) IN
       IF r.ok THEN /\ dec' = Some(r)
                    /\ UNCHANGED <<cpc, decoded>>
       ELSE /\ decoded' = Some(Panic)
            /\ cpc' = "decoded"
            /\ UNCHANGED dec
  /\ UNCHANGED <<build, tree, code, estack>>
  /\ UNCHANGED parseVars
  /\ UNCHANGED evalVars
  /\ UNCHANGED mainVars

\* last_root_block.unwrap()
DecodeReturn ==
  /\ cpc = "decoding"
  /\ dec[1].stack = <<>>
  /\ decoded' = IF dec[1].last_root = None THEN Some(Panic)
                ELSE Some([ok |-> TRUE, block |-> dec[1].last_root[1]])
  /\ cpc' = "decoded"
  /\ UNCHANGED <<build, tree, code, estack, dec>>
  /\ UNCHANGED parseVars
  /\ UNCHANGED evalVars
  /\ UNCHANGED mainVars

NextCodec ==
  \/ EncodeStart
  \/ EncodeStep
  \/ EncodeReturn
  \/ DecodeStart
  \/ DecodeStep
  \/ DecodeReturn

SpecCodec == InitCodec /\ [][NextCodec]_vars

\* C1: decoding the bytes of an encoded tree returns the tree
C1_RoundTrip ==
  cpc = "decoded" => (decoded[1].ok /\ decoded[1].block = tree)

(***************************************************************************)
(* The grid: src/trees-lang/src/compile.rs, SplitedCode.                   *)
(* A character is a token: TL TR BL BR are the corners, H and V the lines, *)
(* RT LT DT UT the tees (right, left, down, up), DOT the bullet, SL the    *)
(* slash, AT the at sign, SP the blank, a and b letters, W a wide letter.  *)
(* Coordinates are usize: x - 1 at 0 aborts in a debug build and wraps in  *)
(* a release build; UsizeMax stands for usize::MAX.                        *)
(***************************************************************************)
UsizeMax == 65535 * 32768 + 32767
Ambiguous == {"TL", "TR", "BL", "BR", "H", "V", "RT", "LT", "DT", "UT", "DOT"}
CharWidthModes == {"Mono", "Half", "Full"}

\* UnicodeWidthStr::width of one character
width(ch) == IF ch = "W" THEN 2 ELSE 1

\* UnicodeWidthStr::width_cjk of one character
width_cjk(ch) == IF ch = "W" \/ ch \in Ambiguous THEN 2 ELSE 1

\* the len given to a character by SplitedCode::append
CharLen(ch, mode) ==
  CASE mode = "Mono" -> 1
    [] mode = "Half" -> width(ch)
    [] mode = "Full" -> width_cjk(ch)

\* SplitedCode::append over one line: x = previous.x + previous.len
SplitLine(line, mode) ==
  LET xs[i \in 0..Len(line)] ==
        IF i = 0 THEN 0 ELSE xs[i - 1] + CharLen(line[i], mode)
  IN [i \in 1..Len(line) |->
        [char |-> line[i], x |-> xs[i - 1], len |-> CharLen(line[i], mode)]]

\* split_code: new() starts with one empty row and new_line() follows every
\* line, so the body ends with an empty row
split_code(lines, mode) ==
  [i \in 1..Len(lines) |-> SplitLine(lines[i], mode)] \o << <<>> >>

\* the 1-based index of the first cell of row whose x is x, 0 when there is none
IndexOfX(row, x) ==
  LET S == {i \in 1..Len(row) : row[i].x = x}
  IN IF S = {} THEN 0 ELSE CHOOSE i \in S : \A j \in S : i <= j

\* self.body.get(y)
Row(body, y) == IF y >= 0 /\ y < Len(body) THEN Some(body[y + 1]) ELSE None

\* SplitedCode::get
get(body, x, y) ==
  IF Row(body, y) = None THEN None
  ELSE LET row == Row(body, y)[1]
           i == IndexOfX(row, x)
       IN IF i = 0 THEN None ELSE Some(row[i])

\* SplitedCode::right_x
right_x(body, x, y) ==
  IF Row(body, y) = None THEN None
  ELSE LET row == Row(body, y)[1]
           i == IndexOfX(row, x)
       IN IF i = 0 \/ i + 1 > Len(row) THEN None ELSE Some(row[i + 1].x)

\* SplitedCode::left_x: index - 1 with index 0 aborts (debug) or wraps to a
\* position past the row (release); the result is [panic, v: Option<usize>]
left_x(body, x, y, b) ==
  IF Row(body, y) = None THEN [panic |-> FALSE, v |-> None]
  ELSE LET row == Row(body, y)[1]
           i == IndexOfX(row, x)
       IN IF i = 0 THEN [panic |-> FALSE, v |-> None]
          ELSE IF i = 1 THEN [panic |-> (b = "debug"), v |-> None]
          ELSE [panic |-> FALSE, v |-> Some(row[i - 1].x)]

\* SplitedCode::get_slice_of_line
get_slice_of_line(body, x_min_exclusive, x_max_exclusive, y) ==
  IF Row(body, y) = None THEN None
  ELSE
    LET row == Row(body, y)[1]
        i0 == IndexOfX(row, x_min_exclusive)
        \* the indices after i0 the loop looks at before x_max or the row's end
        stop == {j \in (i0 + 1)..Len(row) : row[j].x >= x_max_exclusive}
        last == IF stop = {} THEN Len(row)
                ELSE (CHOOSE j \in stop : \A k \in stop : j <= k) - 1
        over == stop # {} /\ row[last + 1].x > x_max_exclusive
    IN IF i0 = 0 \/ over THEN None
       ELSE Some([k \in 1..(last - i0) |-> row[i0 + k].char])

\* SplitedCode::len_y
len_y(body) == Len(body)

\* str::trim on a sequence of characters: blanks and line breaks are whitespace
IsSpace(ch) == ch \in {"SP", "NL"}
trim(str) ==
  LET keep == {i \in 1..Len(str) : ~IsSpace(str[i])}
  IN IF keep = {} THEN <<>>
     ELSE SubSeq(str, CHOOSE i \in keep : \A j \in keep : i <= j,
                      CHOOSE i \in keep : \A j \in keep : i >= j)

(***************************************************************************)
(* The block finder: find_a_block, find_blocks.                            *)
(***************************************************************************)
\* the quote style of a block-plug marker on the top edge
PlugQuote(ch) ==
  CASE ch = "UT" -> "None"
    [] ch = "DOT" -> "Quote"
    [] ch = "SL" -> "Closure"

\* a top edge loop in which a later marker replaces the plug found before
RECURSIVE TopWalkLastPlug(_, _, _, _, _)
TopWalkLastPlug(body, x, y, width1, up_plug) ==
  LET c == get(body, x + width1, y) IN
  IF c = None THEN None
  ELSE IF c[1].char \notin {"H", "UT", "DOT", "SL"}
    THEN Some([width1 |-> width1, up_plug |-> up_plug])
  ELSE TopWalkLastPlug(body, x, y, width1 + c[1].len,
               IF c[1].char = "H" THEN up_plug
               ELSE Some([x |-> x + width1, y |-> y, quote |-> PlugQuote(c[1].char)]))

\* the top edge loop: Option<[width1, up_plug]>
RECURSIVE TopWalk(_, _, _, _, _)
TopWalk(body, x, y, width1, up_plug) ==
  LET c == get(body, x + width1, y) IN
  IF c = None THEN None
  ELSE IF c[1].char \notin {"H", "UT", "DOT", "SL"}
    THEN Some([width1 |-> width1, up_plug |-> up_plug])
  ELSE IF c[1].char \in {"UT", "DOT", "SL"} /\ up_plug # None THEN None
  ELSE TopWalk(body, x, y, width1 + c[1].len,
               IF c[1].char = "H" THEN up_plug
               ELSE Some([x |-> x + width1, y |-> y, quote |-> PlugQuote(c[1].char)]))

\* the right edge loop: Option<[height1, arg_plugs]>
RECURSIVE RightWalk(_, _, _, _, _, _)
RightWalk(body, x, y, width1, height1, arg_plugs) ==
  LET c == get(body, x + width1, y + height1) IN
  IF c = None THEN None
  ELSE IF c[1].char \notin {"V", "RT", "AT"}
    THEN Some([height1 |-> height1, arg_plugs |-> arg_plugs])
  ELSE RightWalk(body, x, y, width1, height1 + 1,
                 IF c[1].char = "V" THEN arg_plugs
                 ELSE Append(arg_plugs, [x |-> x + width1, y |-> y + height1,
                                         expand |-> (c[1].char = "AT"), ori |-> "Right"]))

\* the bottom edge loop: Option<[under_width1, arg_plugs]>
RECURSIVE BottomWalk(_, _, _, _, _, _)
BottomWalk(body, x, y, height1, under_width1, arg_plugs) ==
  LET c == get(body, x + under_width1, y + height1) IN
  IF c = None THEN None
  ELSE IF c[1].char \notin {"H", "DT", "AT"}
    THEN Some([under_width1 |-> under_width1, arg_plugs |-> arg_plugs])
  ELSE BottomWalk(body, x, y, height1, under_width1 + c[1].len,
                  IF c[1].char = "H" THEN arg_plugs
                  ELSE Append(arg_plugs, [x |-> x + under_width1, y |-> y + height1,
                                          expand |-> (c[1].char = "AT"), ori |-> "Down"]))

\* the left edge loop: Option<[under_height1, arg_plugs]>
RECURSIVE LeftWalk(_, _, _, _, _)
LeftWalk(body, x, y, under_height1, arg_plugs) ==
  LET c == get(body, x, y + under_height1) IN
  IF c = None THEN None
  ELSE IF c[1].char \notin {"V", "LT", "AT"}
    THEN Some([under_height1 |-> under_height1, arg_plugs |-> arg_plugs])
  ELSE LeftWalk(body, x, y, under_height1 + 1,
                IF c[1].char = "V" THEN arg_plugs
                ELSE Append(arg_plugs, [x |-> x, y |-> y + under_height1,
                                        expand |-> (c[1].char = "AT"), ori |-> "Left"]))

\* usize::cmp: -1 Less, 0 Equal, 1 Greater
cmp(a, b) == IF a < b THEN -1 ELSE IF a > b THEN 1 ELSE 0

\* a comparator that orders the right edge by y ascending as well
PlugOrderRightAscending(a, b, x, width1) ==
  IF a.x # b.x THEN cmp(a.x, b.x) ELSE cmp(a.y, b.y)

\* the comparator given to arg_plugs.sort_by
PlugOrder(a, b, x, width1) ==
  IF a.x # b.x THEN cmp(a.x, b.x)
  ELSE IF a.x = x THEN cmp(a.y, b.y)
  ELSE IF a.x = x + width1 THEN cmp(b.y, a.y)
  ELSE 0

\* arg_plugs left in the order in which the edges were scanned
sort_by_scan_order(v, x, width1) == v

\* slice::sort_by, stable; on short slices an insertion sort: each element
\* moves left past the elements it compares Less than
sort_by(v, x, width1) ==
  LET ins(t, e) ==
        LET stay == {i \in 1..Len(t) : PlugOrder(e, t[i], x, width1) >= 0}
            j == IF stay = {} THEN 0 ELSE CHOOSE i \in stay : \A k \in stay : i >= k
        IN SubSeq(t, 1, j) \o <<e>> \o SubSeq(t, j + 1, Len(t))
      sorted[k \in 0..Len(v)] == IF k = 0 THEN <<>> ELSE ins(sorted[k - 1], v[k])
  IN sorted[Len(v)]

\* the proc_name loop: the trimmed inner rows, each followed by a line break;
\* Option (a row whose slice is absent makes find_a_block return None)
InnerText(body, x, y, width1, height1) ==
  LET slices == [k \in 1..(height1 - 1) |-> get_slice_of_line(body, x, x + width1, y + k)]
      acc[k \in 0..(height1 - 1)] ==
        IF k = 0 THEN <<>> ELSE acc[k - 1] \o trim(slices[k][1]) \o <<"NL">>
  IN IF \E k \in 1..(height1 - 1) : slices[k] = None THEN None
     ELSE Some(acc[height1 - 1])

\* find_a_block: Option<CompilingBlock>
find_a_block(body, x, y) ==
  LET c0 == get(body, x, y)
      rx == right_x(body, x, y)
  IN
  IF c0 = None THEN None
  ELSE IF c0[1].char # "TL" THEN None
  ELSE IF rx = None THEN None
  ELSE
    LET top == TopWalk(body, x, y, rx[1] - x, None) IN
    IF top = None THEN None
    ELSE
      LET width1 == top[1].width1
          right == RightWalk(body, x, y, width1, 1, <<>>)
      IN
      IF get(body, x + width1, y)[1].char # "TR" THEN None
      ELSE IF right = None THEN None
      ELSE
        LET height1 == right[1].height1
            rx2 == right_x(body, x, y + height1)
        IN
        IF get(body, x + width1, y + height1)[1].char # "BR" THEN None
        ELSE IF rx2 = None THEN None
        ELSE
          LET bottom == BottomWalk(body, x, y, height1, rx2[1] - x, right[1].arg_plugs) IN
          IF bottom = None THEN None
          ELSE IF get(body, x, y + height1)[1].char # "BL"
                  \/ bottom[1].under_width1 # width1 THEN None
          ELSE
            LET left == LeftWalk(body, x, y, 1, bottom[1].arg_plugs) IN
            IF left = None THEN None
            ELSE IF left[1].under_height1 # height1 THEN None
            ELSE
              LET text == InnerText(body, x, y, width1, height1) IN
              IF text = None THEN None
              ELSE Some([proc_name |-> trim(text[1]),
                         args |-> <<>>,
                         x |-> x,
                         y |-> y,
                         width |-> width1 + get(body, x + width1, y)[1].len,
                         height |-> height1 + 1,
                         block_plug |-> top[1].up_plug,
                         connect_from |-> None,
                         arg_plugs |-> sort_by(left[1].arg_plugs, x, width1)])

\* find_blocks: the blocks found at the cells of the grid, rows top to bottom
\* and the cells of a row left to right (enumurate_x)
find_blocks(body) ==
  LET all == UNION { { <<y, i>> : i \in 1..Len(body[y + 1]) } : y \in 0..(len_y(body) - 1) }
      at(p) == find_a_block(body, body[p[1] + 1][p[2]].x, p[1])
      cells == {p \in all : at(p) # None}
      before(p, q) == p[1] < q[1] \/ (p[1] = q[1] /\ p[2] < q[2])
      rank(p) == Cardinality({q \in cells : before(q, p)}) + 1
  IN [k \in 1..Cardinality(cells) |-> at(CHOOSE p \in cells : rank(p) = k)[1]]

(***************************************************************************)
(* The edge tracer and linker: find_next_edge, connect_blocks, and         *)
(* compiling_block_to_block of src/trees/src/compile.rs.                   *)
(***************************************************************************)
MaxFragments == 40   \* a trace is followed for at most this many fragments

\* update_and_check that goes straight on over a character without a
\* transition
update_and_check_through(body, new_x, new_y, ori, up, left, right, down) ==
  LET c == get(body, new_x, new_y) IN
  IF c = None THEN [tag |-> "Err", x |-> new_x, y |-> new_y, ori |-> ori]
  ELSE IF c[1].char = up THEN [tag |-> "Ok", x |-> new_x, y |-> new_y, ori |-> "Up"]
  ELSE IF c[1].char = left THEN [tag |-> "Ok", x |-> new_x, y |-> new_y, ori |-> "Left"]
  ELSE IF c[1].char = right THEN [tag |-> "Ok", x |-> new_x, y |-> new_y, ori |-> "Right"]
  ELSE IF c[1].char = down THEN [tag |-> "Ok", x |-> new_x, y |-> new_y, ori |-> "Down"]
  ELSE [tag |-> "Ok", x |-> new_x, y |-> new_y, ori |-> ori]

\* the closure update_and_check of find_next_edge
update_and_check(body, new_x, new_y, ori, up, left, right, down) ==
  LET c == get(body, new_x, new_y) IN
  IF c = None THEN [tag |-> "Err", x |-> new_x, y |-> new_y, ori |-> ori]
  ELSE IF c[1].char = up THEN [tag |-> "Ok", x |-> new_x, y |-> new_y, ori |-> "Up"]
  ELSE IF c[1].char = left THEN [tag |-> "Ok", x |-> new_x, y |-> new_y, ori |-> "Left"]
  ELSE IF c[1].char = right THEN [tag |-> "Ok", x |-> new_x, y |-> new_y, ori |-> "Right"]
  ELSE IF c[1].char = down THEN [tag |-> "Ok", x |-> new_x, y |-> new_y, ori |-> "Down"]
  ELSE [tag |-> "Err", x |-> new_x, y |-> new_y, ori |-> ori]

\* find_next_edge whose Down row turns the other way at the two corners
find_next_edge_mirrored(body, x, y, ori, b) ==
  CASE ori = "Up" ->
         IF y = 0 /\ b = "debug" THEN [tag |-> "Panic"]
         ELSE update_and_check(body, x, IF y = 0 THEN UsizeMax ELSE y - 1, ori,
                               "V", "TR", "TL", "")
    [] ori = "Left" ->
         LET lx == left_x(body, x, y, b) IN
         IF lx.panic \/ (x = 0 /\ b = "debug") THEN [tag |-> "Panic"]
         ELSE update_and_check(body,
                IF lx.v # None THEN lx.v[1] ELSE IF x = 0 THEN UsizeMax ELSE x - 1,
                y, ori, "BL", "H", "", "TL")
    [] ori = "Right" ->
         LET rx == right_x(body, x, y)
             here == get(body, x, y)
         IN IF here = None THEN [tag |-> "Panic"]
            ELSE update_and_check(body,
                   IF rx # None THEN rx[1] ELSE x + here[1].len,
                   y, ori, "BR", "", "H", "TR")
    [] ori = "Down" ->
         update_and_check(body, x, y + 1, ori, "", "BL", "BR", "V")

\* find_next_edge whose Right row goes Up on a vertical line
find_next_edge_entering(body, x, y, ori, b) ==
  CASE ori = "Up" ->
         IF y = 0 /\ b = "debug" THEN [tag |-> "Panic"]
         ELSE update_and_check(body, x, IF y = 0 THEN UsizeMax ELSE y - 1, ori,
                               "V", "TR", "TL", "")
    [] ori = "Left" ->
         LET lx == left_x(body, x, y, b) IN
         IF lx.panic \/ (x = 0 /\ b = "debug") THEN [tag |-> "Panic"]
         ELSE update_and_check(body,
                IF lx.v # None THEN lx.v[1] ELSE IF x = 0 THEN UsizeMax ELSE x - 1,
                y, ori, "BL", "H", "", "TL")
    [] ori = "Right" ->
         LET rx == right_x(body, x, y)
             here == get(body, x, y)
         IN IF here = None THEN [tag |-> "Panic"]
            ELSE update_and_check(body,
                   IF rx # None THEN rx[1] ELSE x + here[1].len,
                   y, ori, "V", "", "H", "TR")
    [] ori = "Down" ->
         update_and_check(body, x, y + 1, ori, "", "BR", "BL", "V")

\* find_next_edge: Ok(fragment), Err(fragment), or Panic where a usize
\* subtraction underflows in a debug build (y - 1, *x - 1, index - 1)
find_next_edge(body, x, y, ori, b) ==
  CASE ori = "Up" ->
         IF y = 0 /\ b = "debug" THEN [tag |-> "Panic"]
         ELSE update_and_check(body, x, IF y = 0 THEN UsizeMax ELSE y - 1, ori,
                               "V", "TR", "TL", "")
    [] ori = "Left" ->
         LET lx == left_x(body, x, y, b) IN
         IF lx.panic \/ (x = 0 /\ b = "debug") THEN [tag |-> "Panic"]
         ELSE update_and_check(body,
                IF lx.v # None THEN lx.v[1] ELSE IF x = 0 THEN UsizeMax ELSE x - 1,
                y, ori, "BL", "H", "", "TL")
    [] ori = "Right" ->
         LET rx == right_x(body, x, y)
             here == get(body, x, y)
         IN IF here = None THEN [tag |-> "Panic"]
            ELSE update_and_check(body,
                   IF rx # None THEN rx[1] ELSE x + here[1].len,
                   y, ori, "BR", "", "H", "TR")
    [] ori = "Down" ->
         update_and_check(body, x, y + 1, ori, "", "BR", "BL", "V")

\* a filter that keeps every block, plugged or not
HeadCandinatesUnfiltered(bs) == [k \in 1..Len(bs) |-> k - 1]

\* head_candinates of connect_blocks: the 0-based indices of the bs
\* without a block-plug, in the order of blocks
HeadCandinates(bs) ==
  LET idx == {i \in 1..Len(bs) : bs[i].block_plug = None}
      rank(i) == Cardinality({j \in idx : j < i}) + 1
  IN [k \in 1..Cardinality(idx) |-> (CHOOSE i \in idx : rank(i) = k) - 1]

\* the first (block_index, plug index) at or after (bi, pi) in the order of
\* the two nested for loops of connect_blocks; None when the loops are over
NextPlug(bs, bi, pi) ==
  LET later == {k \in (bi + 1)..Len(bs) :
                  IF k = bi + 1 THEN pi < Len(bs[k].arg_plugs)
                  ELSE Len(bs[k].arg_plugs) > 0}
  IN IF later = {} THEN None
     ELSE LET k == CHOOSE k \in later : \A j \in later : k <= j
          IN Some([bi |-> k - 1, pi |-> IF k = bi + 1 THEN pi ELSE 0])

\* a lookup that takes the first block with a block-plug, wherever it is
FindBlockPlugAnywhere(blocks_cloned, x, y) ==
  LET hit == {i \in 1..Len(blocks_cloned) : blocks_cloned[i].block_plug # None}
  IN IF hit = {} THEN None ELSE Some((CHOOSE i \in hit : \A j \in hit : i <= j) - 1)

\* blocks_cloned.iter().enumerate().find(..): the 0-based index of the first
\* block whose block-plug is at (x, y)
FindBlockPlug(blocks_cloned, x, y) ==
  LET hit == {i \in 1..Len(blocks_cloned) :
                /\ blocks_cloned[i].block_plug # None
                /\ blocks_cloned[i].block_plug[1].x = x
                /\ blocks_cloned[i].block_plug[1].y = y}
  IN IF hit = {} THEN None ELSE Some((CHOOSE i \in hit : \A j \in hit : i <= j) - 1)

\* the loop over deferred_connections: the last edge pushed for a block wins
ApplyDeferred(bs, deferred) ==
  [i \in 1..Len(bs) |->
     LET mine == {k \in 1..Len(deferred) : deferred[k].to = i - 1}
     IN IF mine = {} THEN bs[i]
        ELSE [bs[i] EXCEPT !.connect_from =
                Some(deferred[CHOOSE k \in mine : \A j \in mine : k >= j].edge)]]

\* compiling_block_to_block; the recursion does not end on a cycle of edges
\* (the stack overflows), which is cut here at a depth no acyclic tree has
RECURSIVE compiling_block_to_block(_, _, _)
compiling_block_to_block(target, bs, depth) ==
  IF depth > Len(bs) THEN [ok |-> FALSE]
  ELSE
    LET kids == [i \in 1..Len(target.args) |->
                   compiling_block_to_block(
                     bs[target.args[i].block_index_of_block_plug + 1], bs, depth + 1)]
    IN IF \E i \in 1..Len(kids) : ~kids[i].ok THEN [ok |-> FALSE]
       ELSE [ok |-> TRUE,
             block |-> [proc_name |-> target.proc_name,
                        args |-> [i \in 1..Len(kids) |->
                                    [expand |-> target.args[i].arg_plug_info.expand,
                                     block |-> kids[i].block]],
                        quote |-> IF target.block_plug # None
                                  THEN target.block_plug[1].quote ELSE "None"]]

(***************************************************************************)
(* Grids.  In the pictures + is a corner, - and | are lines, { } v ^ are    *)
(* the tees that point left, right, down and up, * is the bullet.          *)
(***************************************************************************)
\* Fan (Mono): a root with two left plugs, a bottom plug and two right plugs (one expanding)
\*         +-------+
\*    +----{ f     }----+
\*    |  +-{       @-+  |
\*    |  | +---v---+ |  |
\*   +^++^+   +^+   +^++^+
\*   |a||b|   |c|   |d||e|
\*   +-++-+   +-+   +-++-+
GridFan ==
  << <<"SP", "SP", "SP", "SP", "SP", "SP", "TL", "H", "H", "H", "H", "H", "H", "H", "TR", "SP", "SP", "SP", "SP", "SP", "SP">>,
     <<"SP", "TL", "H", "H", "H", "H", "LT", "SP", "f", "SP", "SP", "SP", "SP", "SP", "RT", "H", "H", "H", "H", "TR", "SP">>,
     <<"SP", "V", "SP", "SP", "TL", "H", "LT", "SP", "SP", "SP", "SP", "SP", "SP", "SP", "AT", "H", "TR", "SP", "SP", "V", "SP">>,
     <<"SP", "V", "SP", "SP", "V", "SP", "BL", "H", "H", "H", "DT", "H", "H", "H", "BR", "SP", "V", "SP", "SP", "V", "SP">>,
     <<"TL", "UT", "TR", "TL", "UT", "TR", "SP", "SP", "SP", "TL", "UT", "TR", "SP", "SP", "SP", "TL", "UT", "TR", "TL", "UT", "TR">>,
     <<"V", "a", "V", "V", "b", "V", "SP", "SP", "SP", "V", "c", "V", "SP", "SP", "SP", "V", "d", "V", "V", "e", "V">>,
     <<"BL", "H", "BR", "BL", "H", "BR", "SP", "SP", "SP", "BL", "H", "BR", "SP", "SP", "SP", "BL", "H", "BR", "BL", "H", "BR">> >>

\* Aside (Mono): a root with a closure child, beside a quoted block nothing leads to and its child
\*   +-+  +*+
\*   |a}+ |b}+
\*   +-+| +-+|
\*     +/+  +^+
\*     |c|  |d|
\*     +-+  +-+
GridAside ==
  << <<"TL", "H", "TR", "SP", "SP", "TL", "DOT", "TR", "SP", "SP", "SP">>,
     <<"V", "a", "RT", "TR", "SP", "V", "b", "RT", "TR", "SP", "SP">>,
     <<"BL", "H", "BR", "V", "SP", "BL", "H", "BR", "V", "SP", "SP">>,
     <<"SP", "SP", "TL", "SL", "TR", "SP", "SP", "TL", "UT", "TR", "SP">>,
     <<"SP", "SP", "V", "c", "V", "SP", "SP", "V", "d", "V", "SP">>,
     <<"SP", "SP", "BL", "H", "BR", "SP", "SP", "BL", "H", "BR", "SP">> >>

\* Twin (Mono): two blocks without a block-plug (tests::error_non_unique_start_block)
\*   +-+ +-+
\*   |a| |b|
\*   +v+ +-+
\*   +^+
\*   |c|
\*   +-+
GridTwin ==
  << <<"TL", "H", "TR", "SP", "TL", "H", "TR">>,
     <<"V", "a", "V", "SP", "V", "b", "V">>,
     <<"BL", "DT", "BR", "SP", "BL", "H", "BR">>,
     <<"TL", "UT", "TR", "SP", "SP", "SP", "SP">>,
     <<"V", "c", "V", "SP", "SP", "SP", "SP">>,
     <<"BL", "H", "BR", "SP", "SP", "SP", "SP">> >>

\* Cjk (Full): full-width lines: a root over its child
\*   +-+
\*   |W|
\*   +v+
\*   +^+
\*   |ab|
\*   +-+
GridCjk ==
  << <<"TL", "H", "TR">>,
     <<"V", "W", "V">>,
     <<"BL", "DT", "BR">>,
     <<"TL", "UT", "TR">>,
     <<"V", "a", "b", "V">>,
     <<"BL", "H", "BR">> >>

\* Half (Half): half-width lines and a wide letter: a root left of its child
\*   +---+
\*   |W }+
\*   +---+|
\*       +^+
\*       |b|
\*       +-+
GridHalf ==
  << <<"TL", "H", "H", "H", "TR", "SP", "SP">>,
     <<"V", "W", "SP", "RT", "TR", "SP">>,
     <<"BL", "H", "H", "H", "BR", "V", "SP">>,
     <<"SP", "SP", "SP", "SP", "TL", "UT", "TR">>,
     <<"SP", "SP", "SP", "SP", "V", "b", "V">>,
     <<"SP", "SP", "SP", "SP", "BL", "H", "BR">> >>

\* Rise (Mono): an edge that climbs to the first row and on
\*       |
\*   +-+ |
\*   |a}-+
\*   +-+
GridRise ==
  << <<"SP", "SP", "SP", "SP", "V">>,
     <<"TL", "H", "TR", "SP", "V">>,
     <<"V", "a", "RT", "H", "BR">>,
     <<"BL", "H", "BR", "SP", "SP">> >>

\* Brink (Mono): a left plug in the first column
\*   +-+
\*   {a|
\*   +-+
GridBrink ==
  << <<"TL", "H", "TR">>,
     <<"LT", "a", "V">>,
     <<"BL", "H", "BR">> >>

\* Plugs (Mono): a rectangle with two block-plug markers on its top edge
\* (tests::ignore_two_block_plug), here the bullet and the slash
\*   +-+
\*   |a|
\*   +-+
\*   +*/+
\*   |b |
\*   +--+
GridPlugs ==
  << <<"TL", "H", "TR", "SP">>,
     <<"V", "a", "V", "SP">>,
     <<"BL", "H", "BR", "SP">>,
     <<"TL", "DOT", "SL", "TR">>,
     <<"V", "b", "SP", "V">>,
     <<"BL", "H", "H", "BR">> >>

\* Maze (Mono): an edge that takes every straight and every turn of the
\* transition table on its way from a to b
\*   
\*   +----------+
\*   |         +^+
\*   | +-----+ |b|
\*   | |     | +-+
\*   +-+ +-+ |
\*   +-+ | | |
\*   |a}-+ +-+
\*   +-+
GridMaze ==
  << <<"SP", "SP", "SP", "SP", "SP", "SP", "SP", "SP", "SP", "SP", "SP", "SP", "SP">>,
     <<"TL", "H", "H", "H", "H", "H", "H", "H", "H", "H", "H", "TR", "SP">>,
     <<"V", "SP", "SP", "SP", "SP", "SP", "SP", "SP", "SP", "SP", "TL", "UT", "TR">>,
     <<"V", "SP", "TL", "H", "H", "H", "H", "H", "TR", "SP", "V", "b", "V">>,
     <<"V", "SP", "V", "SP", "SP", "SP", "SP", "SP", "V", "SP", "BL", "H", "BR">>,
     <<"BL", "H", "BR", "SP", "TL", "H", "TR", "SP", "V", "SP", "SP", "SP", "SP">>,
     <<"TL", "H", "TR", "SP", "V", "SP", "V", "SP", "V", "SP", "SP", "SP", "SP">>,
     <<"V", "a", "RT", "H", "BR", "SP", "BL", "H", "BR", "SP", "SP", "SP", "SP">>,
     <<"BL", "H", "BR", "SP", "SP", "SP", "SP", "SP", "SP", "SP", "SP", "SP", "SP">> >>

\* Loop (Mono): an edge that runs into a closed loop of lines and corners
\*   +-+ +-+
\*   |a}-| ++
\*   +-+ +--+
GridLoop ==
  << <<"TL", "H", "TR", "SP", "TL", "H", "TR", "SP">>,
     <<"V", "a", "RT", "H", "V", "SP", "BL", "TR">>,
     <<"BL", "H", "BR", "SP", "BL", "H", "H", "BR">> >>

Templates ==
  { [lines |-> GridFan, mode |-> "Mono"],
    [lines |-> GridAside, mode |-> "Mono"],
    [lines |-> GridTwin, mode |-> "Mono"],
    [lines |-> GridCjk, mode |-> "Full"],
    [lines |-> GridHalf, mode |-> "Half"],
    [lines |-> GridRise, mode |-> "Mono"],
    [lines |-> GridBrink, mode |-> "Mono"],
    [lines |-> GridPlugs, mode |-> "Mono"],
    [lines |-> GridMaze, mode |-> "Mono"],
    [lines |-> GridLoop, mode |-> "Mono"] }

(***************************************************************************)
(* The programs given to compile: the grids above, and each of them with   *)
(* one character replaced.                                                 *)
(***************************************************************************)
MutTokens == {"SP", "UT", "H", "V"}

ParseInputs ==
  Templates \cup
  UNION { UNION { { [lines |-> [T.lines EXCEPT ![y][i] = t], mode |-> T.mode] :
                      t \in MutTokens, i \in 1..Len(T.lines[y]) } :
                  y \in 1..Len(T.lines) } :
          T \in Templates }

(***************************************************************************)
(* compile of src/trees/src/compile.rs, connect_blocks one loop iteration  *)
(* at a time.                                                              *)
(***************************************************************************)
InitParse ==
  /\ build \in Builds
  /\ pin \in ParseInputs
  /\ ppc = "compile"
  /\ splited_code = <<>>
  /\ blocks = <<>>
  /\ conn = <<>>
  /\ presult = None
  /\ compiled = None
  /\ CodecIdle
  /\ EvalIdle
  /\ MainIdle

\* let splited_code = split_code(&code, config)
SplitCode ==
  /\ ppc = "compile"
  /\ splited_code' = split_code(pin.lines, pin.mode)
  /\ ppc' = "split"
  /\ UNCHANGED <<build, pin, blocks, conn, presult, compiled>>
  /\ UNCHANGED codecVars
  /\ UNCHANGED evalVars
  /\ UNCHANGED mainVars

\* let mut blocks = find_blocks(&splited_code, config)
FindBlocks ==
  /\ ppc = "split"
  /\ blocks' = find_blocks(splited_code)
  /\ ppc' = "found"
  /\ UNCHANGED <<build, pin, splited_code, conn, presult, compiled>>
  /\ UNCHANGED codecVars
  /\ UNCHANGED evalVars
  /\ UNCHANGED mainVars

\* connect_blocks up to the first for loop
ConnectStart ==
  /\ ppc = "found"
  /\ LET head_candinates == HeadCandinates(blocks) IN
       IF Len(head_candinates) # 1
       THEN /\ presult' = Some([tag |-> "NonUniqueStartBlock",
                                candinates |-> [k \in 1..Len(head_candinates) |->
                                                  blocks[head_candinates[k] + 1]]])
            /\ ppc' = "returned"
            /\ UNCHANGED conn
       ELSE /\ conn' = [blocks_cloned |-> blocks,
                        head |-> head_candinates[1],
                        deferred_connections |-> <<>>,
                        block_index |-> 0, plug |-> 0,
                        mut_x |-> 0, mut_y |-> 0, mut_ori |-> "Up",
                        fragments |-> <<>>]
            /\ ppc' = "plugs"
            /\ UNCHANGED presult
  /\ UNCHANGED <<build, pin, splited_code, blocks, compiled>>
  /\ UNCHANGED codecVars
  /\ UNCHANGED evalVars
  /\ UNCHANGED mainVars

\* the head of the inner for loop: the next arg_plug, its trace about to start
TraceStart ==
  /\ ppc = "plugs"
  /\ NextPlug(blocks, conn.block_index, conn.plug) # None
  /\ LET n == NextPlug(blocks, conn.block_index, conn.plug)[1]
         arg_plug == blocks[n.bi + 1].arg_plugs[n.pi + 1]
     IN conn' = [conn EXCEPT !.block_index = n.bi, !.plug = n.pi,
                             !.mut_x = arg_plug.x, !.mut_y = arg_plug.y,
                             !.mut_ori = arg_plug.ori, !.fragments = <<>>]
  /\ ppc' = "tracing"
  /\ UNCHANGED <<build, pin, splited_code, blocks, presult, compiled>>
  /\ UNCHANGED codecVars
  /\ UNCHANGED evalVars
  /\ UNCHANGED mainVars

\* one iteration of the loop around find_next_edge
TraceStep ==
  /\ ppc = "tracing"
  /\ \E r \in {find_next_edge(splited_code, conn.mut_x, conn.mut_y, conn.mut_ori, build)} :
       CASE r.tag = "Panic" ->
              /\ presult' = Some([tag |-> "Panic"])
              /\ ppc' = "returned"
              /\ UNCHANGED conn
         [] r.tag = "Ok" ->
              /\ Len(conn.fragments) < MaxFragments
              /\ conn' = [conn EXCEPT !.mut_x = r.x, !.mut_y = r.y, !.mut_ori = r.ori,
                                      !.fragments = Append(@, [x |-> r.x, y |-> r.y,
                                                               ori |-> r.ori])]
              /\ UNCHANGED <<ppc, presult>>
         [] r.tag = "Err" ->
              /\ conn' = [conn EXCEPT !.mut_x = r.x, !.mut_y = r.y]
              /\ ppc' = "stopped"
              /\ UNCHANGED presult
  /\ UNCHANGED <<build, pin, splited_code, blocks, compiled>>
  /\ UNCHANGED codecVars
  /\ UNCHANGED evalVars
  /\ UNCHANGED mainVars

\* after the loop: the block-plug at the stop, the edge, the deferred connection
TraceEnd ==
  /\ ppc = "stopped"
  /\ LET found == FindBlockPlug(conn.blocks_cloned, conn.mut_x, conn.mut_y)
         block == blocks[conn.block_index + 1]
         arg_plug == block.arg_plugs[conn.plug + 1]
     IN IF found = None
        THEN /\ presult' = Some([tag |-> "DanglingArgEdge",
                                 block_of_arg_plug |-> block,
                                 arg_plug |-> arg_plug,
                                 edge_fragments |-> conn.fragments,
                                 dangling_position |-> <<conn.mut_x, conn.mut_y>>])
             /\ ppc' = "returned"
             /\ UNCHANGED <<blocks, conn>>
        ELSE LET connect_edge == [block_index_of_arg_plug |-> conn.block_index,
                                  arg_plug_info |-> arg_plug,
                                  fragments |-> conn.fragments,
                                  block_index_of_block_plug |-> found[1]]
             IN /\ blocks' = [blocks EXCEPT ![conn.block_index + 1].args =
                                              Append(@, connect_edge)]
                /\ conn' = [conn EXCEPT !.deferred_connections =
                                          Append(@, [to |-> found[1], edge |-> connect_edge]),
                                        !.plug = @ + 1]
                /\ ppc' = "plugs"
                /\ UNCHANGED presult
  /\ UNCHANGED <<build, pin, splited_code, compiled>>
  /\ UNCHANGED codecVars
  /\ UNCHANGED evalVars
  /\ UNCHANGED mainVars

\* after the for loops: connect_from is set, the head is returned
ConnectFinish ==
  /\ ppc = "plugs"
  /\ NextPlug(blocks, conn.block_index, conn.plug) = None
  /\ blocks' = ApplyDeferred(blocks, conn.deferred_connections)
  /\ presult' = Some([tag |-> "Ok", head |-> blocks'[conn.head + 1]])
  /\ ppc' = "returned"
  /\ UNCHANGED <<build, pin, splited_code, conn, compiled>>
  /\ UNCHANGED codecVars
  /\ UNCHANGED evalVars
  /\ UNCHANGED mainVars

\* compile after connect_blocks: map_err(..)? or Ok(compiling_block_to_block(..))
CompileReturn ==
  /\ ppc = "returned"
  /\ compiled' =
       IF presult[1].tag = "Ok"
       THEN LET r == compiling_block_to_block(presult[1].head, blocks, 0) IN
            IF r.ok THEN Some([tag |-> "Ok", block |-> r.block])
            ELSE Some([tag |-> "Panic"])
       ELSE IF presult[1].tag = "Panic" THEN Some([tag |-> "Panic"])
       ELSE Some([tag |-> "Err", err |-> presult[1].tag])
  /\ ppc' = "done"
  /\ UNCHANGED <<build, pin, splited_code, blocks, conn, presult>>
  /\ UNCHANGED codecVars
  /\ UNCHANGED evalVars
  /\ UNCHANGED mainVars

NextParse ==
  \/ SplitCode
  \/ FindBlocks
  \/ ConnectStart
  \/ TraceStart
  \/ TraceStep
  \/ TraceEnd
  \/ ConnectFinish
  \/ CompileReturn

SpecParse == InitParse /\ [][NextParse]_vars

(***************************************************************************)
(* Properties of the parser.                                               *)
(***************************************************************************)
\* the blocks without a block-plug, in the order of blocks
Plugless(bs) == SelectSeq(bs, LAMBDA blk : blk.block_plug = None)

\* C2: connect_blocks returns a head only when exactly one found block has no
\* block-plug, and the head is that block; otherwise it returns
\* NonUniqueStartBlock with exactly the plug-less blocks in scan order, before
\* any edge is traced: no args and no connect_from has been written
C2_UniqueStart ==
  presult # None =>
    /\ presult[1].tag = "Ok" =>
          /\ Len(Plugless(blocks)) = 1
          /\ presult[1].head.block_plug = None
          /\ presult[1].head \in {blocks[i] : i \in 1..Len(blocks)}
    /\ Len(Plugless(blocks)) # 1 =>
          /\ presult[1].tag = "NonUniqueStartBlock"
          /\ presult[1].candinates = Plugless(blocks)
          /\ conn = <<>>
          /\ \A i \in 1..Len(blocks) :
                blocks[i].args = <<>> /\ blocks[i].connect_from = None
    /\ presult[1].tag = "NonUniqueStartBlock" => Len(Plugless(blocks)) # 1

\* two blocks without a block-plug, one of them with an arg-plug to trace
C2_Witness ==
  /\ ppc = "done"
  /\ presult[1].tag = "NonUniqueStartBlock"
  /\ Len(presult[1].candinates) >= 2
  /\ \E i \in 1..Len(blocks) : blocks[i].arg_plugs # <<>>

\* where the trace that starts at plug and runs over fragments stops
StopOf(sc, plug, fragments, b) ==
  LET last == IF fragments = <<>> THEN plug ELSE Last(fragments)
  IN find_next_edge(sc, last.x, last.y, last.ori, b)

\* the call tree t has the children of blk in the order of blk.args, all the way down
RECURSIVE FollowsArgs(_, _, _)
FollowsArgs(t, blk, bs) ==
  /\ t.proc_name = blk.proc_name
  /\ Len(t.args) = Len(blk.args)
  /\ \A k \in 1..Len(t.args) :
        /\ t.args[k].expand = blk.args[k].arg_plug_info.expand
        /\ FollowsArgs(t.args[k].block, bs[blk.args[k].block_index_of_block_plug + 1], bs)

\* C3: after connect_blocks succeeds every found block, reachable from the
\* root or not, has one edge per arg-plug: args is as long as arg_plugs,
\* args[i] carries arg_plugs[i] and names a block whose block-plug is where
\* the trace from arg_plugs[i] stopped; the call tree keeps the args order
C3_OneEdgePerPlug ==
  (presult # None /\ presult[1].tag = "Ok") =>
    /\ \A i \in 1..Len(blocks) :
          /\ Len(blocks[i].args) = Len(blocks[i].arg_plugs)
          /\ \A k \in 1..Len(blocks[i].args) :
                LET e == blocks[i].args[k]
                    stop == StopOf(splited_code, blocks[i].arg_plugs[k], e.fragments, build)
                IN /\ e.arg_plug_info = blocks[i].arg_plugs[k]
                   /\ e.block_index_of_block_plug \in 0..(Len(blocks) - 1)
                   /\ stop.tag = "Err"
                   /\ blocks[e.block_index_of_block_plug + 1].block_plug # None
                   /\ blocks[e.block_index_of_block_plug + 1].block_plug[1].x = stop.x
                   /\ blocks[e.block_index_of_block_plug + 1].block_plug[1].y = stop.y
    /\ (compiled # None /\ compiled[1].tag = "Ok") =>
          FollowsArgs(compiled[1].block, presult[1].head, blocks)

\* a success with a plugged block nothing leads to that has an edge of its own
C3_Witness ==
  /\ ppc = "done"
  /\ compiled[1].tag = "Ok"
  /\ compiled[1].block.args # <<>>
  /\ \E i \in 1..Len(blocks) :
        /\ blocks[i].block_plug # None
        /\ blocks[i].connect_from = None
        /\ blocks[i].args # <<>>

\* C4: the arg_plugs of every found block are in x ascending order, equal x
\* on the left edge in y ascending order and on the right edge in y
\* descending order; no two plugs tie, so the order is a strict total order
\* of the coordinates, the same whichever way the plugs were scanned
C4_PlugOrder ==
  \A i \in 1..Len(blocks) :
    LET p == blocks[i].arg_plugs
        left == blocks[i].x
        right == blocks[i].x + blocks[i].width - CharLen("TR", pin.mode)
    IN /\ \A j, k \in 1..Len(p) :
             j < k =>
               /\ p[j].x <= p[k].x
               /\ p[j].x = p[k].x => p[j].x \in {left, right}
               /\ (p[j].x = p[k].x /\ p[j].x = left) => p[j].y < p[k].y
               /\ (p[j].x = p[k].x /\ p[j].x = right) => p[j].y > p[k].y
       /\ sort_by(Reverse(p), left, right - left) = p

\* a found block with two plugs on its left edge and two on its right edge
C4_Witness ==
  /\ ppc = "found"
  /\ \E i \in 1..Len(blocks) :
        LET p == blocks[i].arg_plugs IN
        /\ \E j, k \in 1..Len(p) : j < k /\ p[j].x = blocks[i].x /\ p[k].x = blocks[i].x
        /\ \E j, k \in 1..Len(p) : j < k /\ p[j].x > blocks[i].x /\ p[k].x = p[j].x

(***************************************************************************)
(* The evaluator: src/src/structs/block.rs, exec_env.rs, literal.rs and    *)
(* src/src/executor/predefined.rs.  A String, and so a proc_name, is the   *)
(* sequence of its characters.  A scope (Rc<RefCell<ExecuteScopeBody>>) is *)
(* its index in heap, so that two holders of one scope see one namespace.  *)
(* An ExecuteEnv is the record [heap, scopes, out].                        *)
(***************************************************************************)
\* Block
Blk(proc_name, args, quote) == [proc_name |-> proc_name, args |-> args, quote |-> quote]
Arg(expand, block) == [expand |-> expand, block |-> block]
Atom(name) == Blk(name, <<>>, FALSE)
Call(name, kids) == Blk(name, [i \in 1..Len(kids) |-> Arg(FALSE, kids[i])], FALSE)
Quote(block) == [block EXCEPT !.quote = TRUE]

\* Literal
LInt(i) == [t |-> "Int", i |-> i]
LString(s) == [t |-> "String", s |-> s]
LBoolean(b) == [t |-> "Boolean", b |-> b]
LList(l) == [t |-> "List", l |-> l]
LVoid == [t |-> "Void"]
LBlock(lit) == [t |-> "Block", lit |-> lit]

\* ProcedureOrVar
FnProcedure(f) == [k |-> "FnProcedure", f |-> f]
BlockProcedure(lit) == [k |-> "BlockProcedure", lit |-> lit]
Var(lit) == [k |-> "Var", lit |-> lit]

\* Result
Ok(v) == [ok |-> TRUE, v |-> v]
Err(e) == [ok |-> FALSE, e |-> e]

\* ProcedureError
OtherError(msg) == [pe |-> "OtherError", msg |-> msg]
CausedByBlockExec(err) == [pe |-> "CausedByBlockExec", err |-> err]

\* HashMap::insert
Insert(ns, name, val) ==
  [x \in (DOMAIN ns) \cup {name} |-> IF x = name THEN val ELSE ns[x]]

\* the built-in procedures that are modelled
NativeNames ==
  { <<"g", "e", "t">>, <<"d", "e", "f", "s", "e", "t">>, <<"s", "e", "t">>, <<"p", "r", "i", "n", "t">>, <<"l", "i", "s", "t", "i", "n", "g">>, <<"s", "e", "q">>, <<"f", "o", "r">>,
    <<"d", "e", "f", "p", "r", "o", "c">>, <<"e", "x", "e", "c">>, <<"i", "n", "c", "l", "u", "d", "e">>, <<"e", "x", "p", "o", "r", "t">>, <<"i", "f", "0">>, <<"i", "f", "n", "0">>,
    <<"/">>, <<"%">> }

\* predefined_procs
predefined_procs == [n \in NativeNames |-> FnProcedure(n)]

\* ExecuteEnv::new
ExecuteEnv_new(namespace) ==
  [heap |-> << [paths |-> <<>>, namespace |-> namespace] >>,
   scopes |-> << <<1>> >>,
   out |-> <<>>]

get_last_scopes(env) == Last(env.scopes)
get_last_scope(env) == Last(Last(env.scopes))

\* scopes[scopes.len() - 2]
get_upper_scope(env) == Last(env.scopes)[Len(Last(env.scopes)) - 1]

\* the scope next to the innermost one
get_upper2_scope_near(env, b) == [panic |-> FALSE, v |-> Some(get_upper_scope(env))]

\* scopes.get(scopes.len() - 3): [panic, v: Option<ExecuteScope>]; with
\* fewer than three scopes the subtraction aborts a debug build and wraps in
\* a release build, where get then finds nothing
get_upper2_scope(env, b) ==
  LET scopes == Last(env.scopes) IN
  IF Len(scopes) >= 3 THEN [panic |-> FALSE, v |-> Some(scopes[Len(scopes) - 2])]
  ELSE IF b = "debug" THEN [panic |-> TRUE]
  ELSE [panic |-> FALSE, v |-> None]

\* self.scopes with its last chain replaced
WithLastScopes(env, chain) ==
  [env EXCEPT !.scopes = Front(env.scopes) \o <<chain>>]

new_scope(env) ==
  LET paths == env.heap[get_last_scope(env)].paths
      heap1 == Append(env.heap, [paths |-> paths, namespace |-> <<>>])
  IN WithLastScopes([env EXCEPT !.heap = heap1],
                    Append(get_last_scopes(env), Len(heap1)))

\* back_scope: [ok, env]; ok is FALSE where it panics
back_scope(env) ==
  IF Len(get_last_scopes(env)) <= 1 THEN [ok |-> FALSE]
  ELSE [ok |-> TRUE, env |-> WithLastScopes(env, Front(get_last_scopes(env)))]

reload_scope(env, scope) == WithLastScopes(env, Append(get_last_scopes(env), scope))

\* freeze_scope: [ok, env, scope]
freeze_scope(env) ==
  IF Len(get_last_scopes(env)) <= 1 THEN [ok |-> FALSE]
  ELSE [ok |-> TRUE, env |-> WithLastScopes(env, Front(get_last_scopes(env))),
        scope |-> get_last_scope(env)]

new_scopes(env, chain) == [env EXCEPT !.scopes = Append(@, chain)]

\* the stack of chains is left as it is
back_scopes_keep(env) == env

back_scopes(env) == [env EXCEPT !.scopes = Front(@)]

\* find_scope: Option of the last scope of the active chain that has name
find_scope(env, name) ==
  LET s == get_last_scopes(env)
      has == {i \in 1..Len(s) : name \in DOMAIN env.heap[s[i]].namespace}
  IN IF has = {} THEN None ELSE Some(s[CHOOSE i \in has : \A j \in has : i >= j])

find_namespace(env, name) ==
  IF find_scope(env, name) = None THEN None
  ELSE Some(env.heap[find_scope(env, name)[1]].namespace[name])

\* namespace.insert in the scope
InsertInto(env, scope, name, val) ==
  [env EXCEPT !.heap[scope].namespace = Insert(@, name, val)]

\* i.to_string() of a small natural number
Digits == <<"0", "1", "2", "3", "4", "5", "6", "7", "8", "9">>
RECURSIVE to_string(_)
to_string(i) ==
  IF i < 10 THEN <<Digits[i + 1]>> ELSE to_string(i \div 10) \o <<Digits[(i % 10) + 1]>>

defset_args(env, args) ==
  LET ins[i \in 0..Len(args)] ==
        IF i = 0 THEN Insert(env.heap[get_last_scope(env)].namespace, <<"$", "a", "r", "g", "s">>, Var(LList(args)))
        ELSE Insert(ins[i - 1], <<"$">> \o to_string(i - 1), Var(args[i]))
  IN [env EXCEPT !.heap[get_last_scope(env)].namespace = ins[Len(args)]]

\* the value of a digit character
DigitValue(ch) == (CHOOSE i \in 1..10 : Digits[i] = ch) - 1

\* to_int: the regular expression ^(\+|-)?[0-9]+$ and then parse::<i64>(),
\* which accepts a leading sign and fails only outside the i64 range, beyond
\* the few digits of the names evaluated here
to_int(str) ==
  LET signed == Len(str) > 0 /\ str[1] \in {"+", "-"}
      digits == IF signed THEN Tail(str) ELSE str
      isnum == Len(digits) > 0 /\ \A i \in 1..Len(digits) : \E d \in 1..10 : Digits[d] = digits[i]
      val[i \in 0..Len(digits)] ==
        IF i = 0 THEN 0 ELSE val[i - 1] * 10 + DigitValue(digits[i])
  IN IF ~isnum THEN None
     ELSE Some(IF signed /\ str[1] = "-" THEN 0 - val[Len(digits)] ELSE val[Len(digits)])

\* to_bool: str.parse::<bool>()
to_bool(str) ==
  IF str = <<"t", "r", "u", "e">> THEN Some(TRUE)
  ELSE IF str = <<"f", "a", "l", "s", "e">> THEN Some(FALSE)
  ELSE None

\* ProcBind
Namespace(scope) == [b |-> "Namespace", scope |-> scope]
Literal(lit) == [b |-> "Literal", lit |-> lit]

\* bind_name: [panic, v: Option<ProcBind>]; name[1..(name.len() - 1)] panics
\* on the name of length one that is a double quote
bind_name(env, name) ==
  IF find_scope(env, name) # None
  THEN [panic |-> FALSE, v |-> Some(Namespace(find_scope(env, name)[1]))]
  ELSE IF Len(name) > 0 /\ name[1] = "\"" /\ name[Len(name)] = "\""
  THEN IF Len(name) < 2 THEN [panic |-> TRUE]
       ELSE [panic |-> FALSE, v |-> Some(Literal(LString(SubSeq(name, 2, Len(name) - 1))))]
  ELSE IF to_int(name) # None
  THEN [panic |-> FALSE, v |-> Some(Literal(LInt(to_int(name)[1])))]
  ELSE IF to_bool(name) # None
  THEN [panic |-> FALSE, v |-> Some(Literal(LBoolean(to_bool(name)[1])))]
  ELSE IF name = <<>>
  THEN [panic |-> FALSE, v |-> Some(Literal(LVoid))]
  ELSE [panic |-> FALSE, v |-> None]

\* the message of get_var and set_var, by its format string and argument
NotDefined(name) == [kind |-> "Variable {} is not defined", name |-> name]

\* get_var
get_var(env, name) ==
  LET f == find_namespace(env, name) IN
  IF f # None /\ f[1].k = "Var" THEN Ok(f[1].lit)
  ELSE Err(OtherError(NotDefined(name)))

\* the binding is made in the innermost scope
defset_var_innermost(env, name, value) == InsertInto(env, get_last_scope(env), name, Var(value))

defset_var(env, name, value) == InsertInto(env, get_upper_scope(env), name, Var(value))

defset_var_into_last_scope(env, name, value) ==
  InsertInto(env, get_last_scope(env), name, Var(value))

\* the binding is replaced in the outermost scope of the chain that has name
set_var_outermost(env, name, value) ==
  LET s == get_last_scopes(env)
      has == {i \in 1..Len(s) : name \in DOMAIN env.heap[s[i]].namespace}
  IN IF has = {} THEN Err(NotDefined(name))
     ELSE [ok |-> TRUE,
           env |-> InsertInto(env, s[CHOOSE i \in has : \A j \in has : i <= j], name, Var(value))]

\* set_var: [ok, env] or [ok, e]
set_var(env, name, value) ==
  IF find_scope(env, name) # None
  THEN [ok |-> TRUE, env |-> InsertInto(env, find_scope(env, name)[1], name, Var(value))]
  ELSE Err(NotDefined(name))

def_proc(env, name, block) == InsertInto(env, get_upper_scope(env), name, BlockProcedure(block))

\* export: "err" with the message, "panic", or "ok" with the environment
export(env, name, b) ==
  LET value == find_namespace(env, name)
      context == get_upper2_scope(env, b)
  IN IF value = None THEN [k |-> "err", e |-> NotDefined(name)]
     ELSE IF context.panic THEN [k |-> "panic"]
     ELSE IF context.v = None THEN [k |-> "ok", env |-> env]
     ELSE [k |-> "ok", env |-> InsertInto(env, context.v[1], name, value[1])]

\* a closure of the first scope of the chain only
make_closure_global(env, block) == [scopes |-> <<get_last_scopes(env)[1]>>, block |-> block]

\* make_closure
make_closure(env, block) == [scopes |-> get_last_scopes(env), block |-> block]

\* exec_env.block_to_literal(cloned), a name the sources use for make_closure
block_to_literal(env, block) == make_closure(env, block)

\* Literal::to_string; the Debug form of a String inside a List is the text
\* in double quotes (no character of the model needs an escape)
RECURSIVE Literal_to_string(_)
Literal_to_string(lit) ==
  CASE lit.t = "Int" -> IF lit.i < 0 THEN <<"-">> \o to_string(0 - lit.i) ELSE to_string(lit.i)
    [] lit.t = "String" -> lit.s
    [] lit.t = "Boolean" -> IF lit.b THEN <<"t", "r", "u", "e">> ELSE <<"f", "a", "l", "s", "e">>
    [] lit.t = "Block" -> <<"B", "l", "o", "c", "k", " ">> \o lit.lit.block.proc_name
    [] lit.t = "List" ->
         LET item(l) == IF l.t = "String" THEN <<"\"">> \o l.s \o <<"\"">>
                        ELSE Literal_to_string(l)
             join[i \in 0..Len(lit.l)] ==
               IF i = 0 THEN <<>>
               ELSE IF i = 1 THEN item(lit.l[1])
               ELSE join[i - 1] \o <<",", " ">> \o item(lit.l[i])
         IN <<"[">> \o join[Len(lit.l)] \o <<"]">>
    [] lit.t = "Void" -> <<"<", "V", "o", "i", "d", ">">>

\* ExecuteEnv::print
print(env, msg) == [env EXCEPT !.out = Append(@, msg)]

\* the error messages, by their format string and its arguments
UndefinedProcName(name) == [kind |-> "Undefined Proc Name {}", name |-> name]
NeedsList(got) ==
  [kind |-> "\"@\" needs the arg is a list literal. (Got {})", got |-> got]
LengthOfArgs(name, expected, got) ==
  [kind |-> "Procedure {}: Length of args must be {}. (Got {})",
   name |-> name, expected |-> expected, got |-> got]
type_error_msg(proc_name, index, actually, expected) ==
  [kind |-> "Procedure {}: $arg[{}] must be {}. (Got {})",
   name |-> proc_name, index |-> index, expected |-> expected,
   got |-> Literal_to_string(actually)]

\* BlockResult
Success(lit) == [r |-> "Success", lit |-> lit]
Error == [r |-> "Error"]
Unreached == [r |-> "Unreached"]

\* Block::create_error
create_error(self, caused_by, msg, pure_exec_args) ==
  [root |-> [result |-> Error,
             children |-> [i \in 1..Len(self.args) |->
               [result |-> IF i <= Len(pure_exec_args) THEN Success(pure_exec_args[i])
                           ELSE Unreached,
                children |-> <<>>,
                expand |-> self.args[i].expand,
                proc_name |-> self.args[i].block.proc_name]],
             expand |-> FALSE,
             proc_name |-> self.proc_name],
   caused_by |-> caused_by,
   msg |-> msg]

\* create_error used where a child failed: the failing child would be
\* reported as Unreached
create_inherite_error_flat(self, err, pure_exec_args) ==
  create_error(self, err.caused_by, err.msg, pure_exec_args)

\* Block::create_inherite_error
create_inherite_error(self, err, pure_exec_args) ==
  LET root == [err.root EXCEPT !.expand = self.args[Len(self.args)].expand]
      k == Len(pure_exec_args) + 1
  IN [root |-> [result |-> Error,
                children |-> [i \in 1..Len(self.args) |->
                  IF i < k
                  THEN [result |-> Success(pure_exec_args[i]),
                        children |-> <<>>,
                        expand |-> self.args[i].expand,
                        proc_name |-> self.args[i].block.proc_name]
                  ELSE IF i = k THEN root
                  ELSE [result |-> Unreached,
                        children |-> <<>>,
                        expand |-> self.args[i].expand,
                        proc_name |-> self.args[i].block.proc_name]],
                expand |-> FALSE,
                proc_name |-> self.proc_name],
      caused_by |-> err.caused_by,
      msg |-> err.msg]

\* the quote of the children is cleared with that of the node
ClearQuoteDeep(self) ==
  [self EXCEPT !.quote = FALSE,
               !.args = [i \in DOMAIN @ |-> [@[i] EXCEPT !.block.quote = FALSE]]]

\* the quote branch of Block::execute_without_scope: cloned.quote = false
ClearQuote(self) == [self EXCEPT !.quote = FALSE]

\* no splicing: each child contributes its value
expanded_args_whole(self, pure_exec_args) == pure_exec_args

\* the flat_map of Block::execute_without_scope
expanded_args(self, pure_exec_args) ==
  LET flat[i \in 0..Len(pure_exec_args)] ==
        IF i = 0 THEN <<>>
        ELSE IF self.args[i].expand THEN flat[i - 1] \o pure_exec_args[i].l
        ELSE Append(flat[i - 1], pure_exec_args[i])
  IN flat[Len(pure_exec_args)]

\* the map_err of Block::execute_without_scope
map_proc_error(self, proc_error, pure_exec_args) ==
  IF proc_error.pe = "CausedByBlockExec"
  THEN create_error(self, Some(proc_error.err), proc_error.err.msg, pure_exec_args)
  ELSE create_error(self, None, proc_error.msg, pure_exec_args)

\* the parameter lists given to add_map!: the typed parameters and whether
\* a list of the remaining arguments follows
Params ==
  [n \in NativeNames |->
    CASE n = <<"g", "e", "t">> -> [fixed |-> <<"str">>, rest |-> FALSE]
      [] n = <<"d", "e", "f", "s", "e", "t">> -> [fixed |-> <<"str", "any">>, rest |-> FALSE]
      [] n = <<"s", "e", "t">> -> [fixed |-> <<"str", "any">>, rest |-> FALSE]
      [] n = <<"p", "r", "i", "n", "t">> -> [fixed |-> <<"any">>, rest |-> FALSE]
      [] n = <<"l", "i", "s", "t", "i", "n", "g">> -> [fixed |-> <<>>, rest |-> TRUE]
      [] n = <<"s", "e", "q">> -> [fixed |-> <<>>, rest |-> TRUE]
      [] n = <<"f", "o", "r">> -> [fixed |-> <<"int", "str", "block">>, rest |-> FALSE]
      [] n = <<"d", "e", "f", "p", "r", "o", "c">> -> [fixed |-> <<"str", "block">>, rest |-> FALSE]
      [] n = <<"e", "x", "e", "c">> -> [fixed |-> <<"block">>, rest |-> TRUE]
      [] n = <<"i", "n", "c", "l", "u", "d", "e">> -> [fixed |-> <<"str">>, rest |-> FALSE]
      [] n = <<"e", "x", "p", "o", "r", "t">> -> [fixed |-> <<"str">>, rest |-> FALSE]
      [] n = <<"i", "f", "0">> -> [fixed |-> <<"any", "any", "any">>, rest |-> FALSE]
      [] n = <<"i", "f", "n", "0">> -> [fixed |-> <<"any", "any", "any">>, rest |-> FALSE]
      [] n = <<"/">> -> [fixed |-> <<"int", "int">>, rest |-> FALSE]
      [] n = <<"%">> -> [fixed |-> <<"int", "int">>, rest |-> FALSE]]

\* declare!: whether the literal has the declared type
declare(literal, type) ==
  CASE type = "any" -> TRUE
    [] type = "int" -> literal.t = "Int"
    [] type = "str" -> literal.t = "String"
    [] type = "boolean" -> literal.t = "Boolean"
    [] type = "block" -> literal.t = "Block"
    [] type = "list" -> literal.t = "List"

\* initialize_vars!: "ok", "err" with the message, or "panic"; only the form
\* without a rest list compares the lengths, the other one panics when the
\* iterator runs out
initialize_vars(name, vec) ==
  LET fixed == Params[name].fixed
      bad == {i \in 1..Min(Len(fixed), Len(vec)) : ~declare(vec[i], fixed[i])}
      first == CHOOSE i \in bad : \A j \in bad : i <= j
  IN IF ~Params[name].rest /\ Len(vec) # Len(fixed)
     THEN [k |-> "err", msg |-> LengthOfArgs(name, Len(fixed), Len(vec))]
     ELSE IF bad # {}
     THEN [k |-> "err", msg |-> type_error_msg(name, first - 1, vec[first], fixed[first])]
     ELSE IF Len(vec) < Len(fixed) THEN [k |-> "panic"]
     ELSE [k |-> "ok"]

\* the files the includer of main finds: the path elements are joined onto
\* the directory of the program, and a file that cannot be opened is an Err
Files ==
  [p \in {<<"m">>, <<"d", "/", "a">>, <<"d", "/", "b">>} |->
    CASE p = <<"m">> -> Call(<<"d", "e", "f", "s", "e", "t">>, <<Atom(<<"\"", "k", "\"">>), Atom(<<"9">>)>>)
      [] p = <<"d", "/", "a">> -> Call(<<"i", "n", "c", "l", "u", "d", "e">>, <<Atom(<<"\"", "b", "\"">>)>>)
      [] p = <<"d", "/", "b">> -> Atom(<<"7">>)]

\* PathBuf::join folded over the path elements (none of them absolute)
JoinPaths(paths) ==
  LET join[i \in 0..Len(paths)] ==
        IF i = 0 THEN <<>>
        ELSE IF paths[i] = <<>> THEN join[i - 1]
        ELSE IF join[i - 1] = <<>> THEN paths[i]
        ELSE join[i - 1] \o <<"/">> \o paths[i]
  IN join[Len(paths)]

includer(paths) ==
  IF JoinPaths(paths) \in DOMAIN Files THEN Ok(Files[JoinPaths(paths)])
  ELSE Err([kind |-> "No such file or directory", name |-> JoinPaths(paths)])

\* path_str[..path_str.rfind('/')], or "" without a '/'
ParentOf(path_str) ==
  LET at == {i \in 1..Len(path_str) : path_str[i] = "/"} IN
  IF at = {} THEN <<>>
  ELSE SubSeq(path_str, 1, (CHOOSE i \in at : \A j \in at : i >= j) - 1)

\* the head of ExecuteEnv::include, up to the execution of the block:
\* "err" with the includer's message, "panic", or "run" with the block, the
\* frozen scope and the environment in which the block runs
include_enter(env, path_str) ==
  LET paths == Append(env.heap[get_last_scope(env)].paths, path_str)
      block == includer(paths)
      fr == freeze_scope(env)
      env1 == new_scope(fr.env)
      env2 == [env1 EXCEPT !.heap[get_last_scope(env1)].paths = Append(@, ParentOf(path_str))]
  IN IF ~block.ok THEN [k |-> "err", e |-> OtherError(block.e)]
     ELSE IF ~fr.ok THEN [k |-> "panic"]
     ELSE [k |-> "run", block |-> block.v, freezed |-> fr.scope, env |-> env2]

\* the tail of ExecuteEnv::include after the block returned a value
include_leave(env, freezed) ==
  IF ~back_scope(env).ok THEN [ok |-> FALSE]
  ELSE [ok |-> TRUE, env |-> reload_scope(back_scope(env).env, freezed)]

\* then for every cond but a non-zero integer
if0_unless_nonzero(cond, then, els) == IF cond.t = "Int" /\ cond # LInt(0) THEN els ELSE then

\* if0: then when cond is Int(0), els otherwise
if0(cond, then, els) == IF cond = LInt(0) THEN then ELSE els

\* ifn0: els when cond is Int(0), then otherwise
ifn0(cond, then, els) == IF cond = LInt(0) THEN els ELSE then

\* a / b on i64: the quotient rounded towards zero; a divisor 0 panics
\* ("attempt to divide by zero") whatever the build
div(a, b) ==
  IF b = 0 THEN [panic |-> TRUE]
  ELSE LET abs(n) == IF n < 0 THEN 0 - n ELSE n
           q == abs(a) \div abs(b)
       IN [panic |-> FALSE, v |-> IF (a < 0) = (b < 0) THEN q ELSE 0 - q]

\* a % b on i64: the remainder has the sign of a; a divisor 0 panics
rem(a, b) ==
  IF b = 0 THEN [panic |-> TRUE]
  ELSE [panic |-> FALSE, v |-> a - b * div(a, b).v]

\* a built-in procedure applied to its arguments: "panic"; "ret" with the
\* result and the environment; or the block execution it starts: "for",
\* "exec" (BlockLiteral::execute_without_scope) and "include"
native(f, env, args, b) ==
  LET iv == initialize_vars(f, args) IN
  IF iv.k = "panic" THEN [k |-> "panic"]
  ELSE IF iv.k = "err" THEN [k |-> "ret", r |-> Err(OtherError(iv.msg)), env |-> env]
  ELSE CASE f = <<"g", "e", "t">> -> [k |-> "ret", r |-> get_var(env, args[1].s), env |-> env]
    [] f = <<"d", "e", "f", "s", "e", "t">> ->
         [k |-> "ret", r |-> Ok(LVoid), env |-> defset_var(env, args[1].s, args[2])]
    [] f = <<"s", "e", "t">> ->
         LET res == set_var(env, args[1].s, args[2]) IN
         IF res.ok THEN [k |-> "ret", r |-> Ok(LVoid), env |-> res.env]
         ELSE [k |-> "ret", r |-> Err(OtherError(res.e)), env |-> env]
    [] f = <<"p", "r", "i", "n", "t">> ->
         [k |-> "ret", r |-> Ok(LVoid), env |-> print(env, Literal_to_string(args[1]))]
    [] f = <<"l", "i", "s", "t", "i", "n", "g">> -> [k |-> "ret", r |-> Ok(LList(args)), env |-> env]
    [] f = <<"s", "e", "q">> ->
         [k |-> "ret", r |-> Ok(IF args = <<>> THEN LVoid ELSE Last(args)), env |-> env]
    [] f = <<"f", "o", "r">> ->
         [k |-> "for", times |-> args[1].i, var |-> args[2].s, child |-> args[3].lit]
    [] f = <<"d", "e", "f", "p", "r", "o", "c">> ->
         [k |-> "ret", r |-> Ok(LVoid), env |-> def_proc(env, args[1].s, args[2].lit)]
    [] f = <<"e", "x", "e", "c">> -> [k |-> "exec", lit |-> args[1].lit, list |-> Tail(args)]
    [] f = <<"i", "n", "c", "l", "u", "d", "e">> ->
         LET inc == include_enter(env, args[1].s) IN
         IF inc.k = "err" THEN [k |-> "ret", r |-> Err(inc.e), env |-> env]
         ELSE inc
    [] f = <<"e", "x", "p", "o", "r", "t">> ->
         LET res == export(env, args[1].s, b) IN
         IF res.k = "panic" THEN [k |-> "panic"]
         ELSE IF res.k = "err" THEN [k |-> "ret", r |-> Err(OtherError(res.e)), env |-> env]
         ELSE [k |-> "ret", r |-> Ok(LVoid), env |-> res.env]
    [] f = <<"i", "f", "0">> -> [k |-> "ret", r |-> Ok(if0(args[1], args[2], args[3])), env |-> env]
    [] f = <<"i", "f", "n", "0">> -> [k |-> "ret", r |-> Ok(ifn0(args[1], args[2], args[3])), env |-> env]
    [] f = <<"/">> ->
         LET q == div(args[1].i, args[2].i) IN
         IF q.panic THEN [k |-> "panic"]
         ELSE [k |-> "ret", r |-> Ok(LInt(q.v)), env |-> env]
    [] f = <<"%">> ->
         LET q == rem(args[1].i, args[2].i) IN
         IF q.panic THEN [k |-> "panic"]
         ELSE [k |-> "ret", r |-> Ok(LInt(q.v)), env |-> env]

(***************************************************************************)
(* The programs that are evaluated.  A program is the sequence of trees    *)
(* handed to execute_with_mock one after the other, each with an           *)
(* ExecuteEnv of its own: one tree, or the two forms f(x, y, z) and        *)
(* f(@listing(x, y, z)) of one call.                                       *)
(***************************************************************************)
MaxArgs == 3

\* the block whose name is the text in double quotes
Str(text) == Atom(<<"\"">> \o text \o <<"\"">>)

One == Atom(<<"1">>)
Listing12 == Call(<<"l", "i", "s", "t", "i", "n", "g">>, <<Atom(<<"1">>), Atom(<<"2">>)>>)
Nope == Atom(<<"n", "o", "p", "e">>)
DefsetV == Call(<<"d", "e", "f", "s", "e", "t">>, <<Str(<<"v">>), Atom(<<"5">>)>>)
Print7 == Call(<<"p", "r", "i", "n", "t">>, <<Atom(<<"7">>)>>)
SeqNope == Call(<<"s", "e", "q">>, <<One, Nope>>)
Quoted ==
  Quote(Call(<<"s", "e", "q">>, <<Call(<<"p", "r", "i", "n", "t">>, <<Atom(<<"8">>)>>), Quote(Call(<<"p", "r", "i", "n", "t">>, <<Atom(<<"9">>)>>))>>))

ArgChoices ==
  { Arg(FALSE, One), Arg(TRUE, One), Arg(TRUE, Listing12), Arg(FALSE, Nope),
    Arg(FALSE, DefsetV), Arg(FALSE, Print7), Arg(FALSE, SeqNope), Arg(FALSE, Quoted) }

Heads == {<<"s", "e", "q">>, <<"v">>}

Singles ==
  { [kind |-> "single", roots |-> <<Blk(f, a, FALSE)>>] :
      f \in Heads, a \in UNION {[1..n -> ArgChoices] : n \in 0..MaxArgs} }

PairKids == {One, Listing12, Nope, DefsetV, Print7}

PairHeads == {<<"s", "e", "q">>, <<"v">>, <<"l", "i", "s", "t", "i", "n", "g">>}

Direct(f, xs) == Blk(f, [i \in 1..Len(xs) |-> Arg(FALSE, xs[i])], FALSE)
Spliced(f, xs) == Blk(f, <<Arg(TRUE, Call(<<"l", "i", "s", "t", "i", "n", "g">>, xs))>>, FALSE)

Pairs ==
  { [kind |-> "pair", roots |-> <<Direct(f, xs), Spliced(f, xs)>>] :
      f \in PairHeads, xs \in UNION {[1..n -> PairKids] : n \in 1..MaxArgs} }

\* names, evaluated unbound and bound to 42 in the enclosing frame
Names ==
  { <<"3">>, <<"-", "3">>, <<"+", "3">>, <<"-", "0">>, <<"t", "r", "u", "e">>, <<"f", "a", "l", "s", "e">>, <<>>, <<"\"", "a", "b", "\"">>, <<"\"", "\"">>, <<"\"">>,
    <<"x">>, <<"3", "x">>, <<"+">>, <<"T", "r", "u", "e">>, <<"\"", "a">>, <<"g", "e", "t">> }

Named ==
  { [kind |-> "name", roots |-> <<Atom(n)>>] : n \in Names }
  \cup { [kind |-> "name",
          roots |-> <<Call(<<"s", "e", "q">>, <<Call(<<"d", "e", "f", "s", "e", "t">>, <<Str(n), Atom(<<"4", "2">>)>>), Atom(n)>>)>>] :
           n \in Names }

\* v is 1 when the closure is made and set to 2 in the same frame before
\* the closure is executed
Overwrite ==
  Call(<<"s", "e", "q">>, << Call(<<"d", "e", "f", "s", "e", "t">>, <<Str(<<"v">>), Atom(<<"1">>)>>),
                  Call(<<"d", "e", "f", "s", "e", "t">>, <<Str(<<"c">>), Quote(Call(<<"g", "e", "t">>, <<Str(<<"v">>)>>))>>),
                  Call(<<"s", "e", "t">>, <<Str(<<"v">>), Atom(<<"2">>)>>),
                  Call(<<"e", "x", "e", "c">>, <<Call(<<"g", "e", "t">>, <<Str(<<"c">>)>>)>>) >>)

\* the closure is executed by a procedure p that binds v to 2 in its frame
Caller ==
  Call(<<"s", "e", "q">>, << Call(<<"d", "e", "f", "s", "e", "t">>, <<Str(<<"v">>), Atom(<<"1">>)>>),
                  Call(<<"d", "e", "f", "s", "e", "t">>, <<Str(<<"c">>), Quote(Call(<<"g", "e", "t">>, <<Str(<<"v">>)>>))>>),
                  Call(<<"d", "e", "f", "p", "r", "o", "c">>,
                       << Str(<<"p">>),
                          Quote(Call(<<"s", "e", "q">>, << Call(<<"d", "e", "f", "s", "e", "t">>, <<Str(<<"v">>), Atom(<<"2">>)>>),
                                                Call(<<"e", "x", "e", "c">>, <<Call(<<"g", "e", "t">>, <<Str(<<"c">>)>>)>>) >>)) >>),
                  Atom(<<"p">>) >>)

Others ==
  { Call(<<"s", "e", "q">>, << Call(<<"d", "e", "f", "p", "r", "o", "c">>,
                         << Str(<<"p">>),
                            Quote(Call(<<"l", "i", "s", "t", "i", "n", "g">>, << Call(<<"g", "e", "t">>, <<Str(<<"$", "0">>)>>),
                                                      Call(<<"g", "e", "t">>, <<Str(<<"$", "a", "r", "g", "s">>)>>) >>)) >>),
                    Call(<<"p">>, <<Atom(<<"1">>), Atom(<<"2">>)>>) >>),
    Call(<<"f", "o", "r">>, <<Atom(<<"2">>), Str(<<"i">>), Quote(Call(<<"p", "r", "i", "n", "t">>, <<Call(<<"g", "e", "t">>, <<Str(<<"i">>)>>)>>))>>),
    Call(<<"f", "o", "r">>, <<Atom(<<"2">>), Str(<<"i">>), Quote(Nope)>>),
    Call(<<"f", "o", "r">>, <<Atom(<<"-", "3">>), Str(<<"i">>), Quote(Nope)>>),
    Call(<<"f", "o", "r">>, <<Atom(<<"2">>), Str(<<"i">>)>>),
    Call(<<"s", "e", "q">>, <<Call(<<"i", "n", "c", "l", "u", "d", "e">>, <<Str(<<"m">>)>>), Call(<<"g", "e", "t">>, <<Str(<<"k">>)>>)>>),
    Call(<<"i", "n", "c", "l", "u", "d", "e">>, <<Str(<<"d", "/", "a">>)>>),
    Call(<<"i", "n", "c", "l", "u", "d", "e">>, <<Str(<<"z", "z">>)>>),
    Call(<<"i", "n", "c", "l", "u", "d", "e">>, <<Str(<<"d", "/", "z", "z">>)>>),
    Call(<<"e", "x", "e", "c">>, <<Quote(Call(<<"i", "n", "c", "l", "u", "d", "e">>, <<Str(<<"m">>)>>))>>),
    Call(<<"e", "x", "e", "c">>, <<Quote(Call(<<"e", "x", "e", "c">>, <<Quote(Atom(<<"1">>))>>)), Atom(<<"3">>)>>),
    Call(<<"e", "x", "e", "c">>, <<Quote(Nope)>>),
    Call(<<"e", "x", "e", "c">>, <<Atom(<<"5">>)>>),
    Call(<<"e", "x", "e", "c">>, <<>>),
    Call(<<"s", "e", "t">>, <<Str(<<"w">>), Atom(<<"1">>)>>),
    Call(<<"g", "e", "t">>, <<Atom(<<"1">>)>>),
    Quote(Print7) }

\* defset(name, value) with a literal value
Defset(name, value) == Call(<<"d", "e", "f", "s", "e", "t">>, <<Str(name), Atom(value)>>)

\* a name bound by defset inside the call h(..) and named by the next
\* sibling of that call
Siblings ==
  { Call(<<"s", "e", "q">>, <<Call(h, <<Defset(n, <<"5">>)>>), Atom(n)>>) :
      h \in {<<"s", "e", "q">>, <<"l", "i", "s", "t", "i", "n", "g">>}, n \in {<<"v">>, <<"w">>} }

\* defset twice in one frame, in a frame below one that binds the name, at
\* the root, in a closure, and of the name of the block that contains it
Defsets ==
  { Call(<<"l", "i", "s", "t", "i", "n", "g">>, <<Defset(<<"v">>, <<"1">>), Defset(<<"v">>, <<"5">>), Atom(<<"v">>)>>),
    Call(<<"l", "i", "s", "t", "i", "n", "g">>, <<Defset(<<"v">>, <<"1">>),
                       Call(<<"l", "i", "s", "t", "i", "n", "g">>, <<Defset(<<"v">>, <<"5">>), Atom(<<"v">>)>>),
                       Atom(<<"v">>)>>),
    Call(<<"l", "i", "s", "t", "i", "n", "g">>, <<Defset(<<"v">>, <<"1">>), Call(<<"s", "e", "q">>, <<Defset(<<"w">>, <<"2">>)>>), Atom(<<"v">>)>>),
    Defset(<<"v">>, <<"5">>),
    Call(<<"e", "x", "e", "c">>, <<Quote(Defset(<<"v">>, <<"5">>))>>),
    Call(<<"s", "e", "q">>, <<Defset(<<"s", "e", "q">>, <<"1">>)>>) }

\* set(name, value) with a literal value
SetTo(name, value) == Call(<<"s", "e", "t">>, <<Str(name), Atom(value)>>)

\* set of a name bound in the frame and in the one outside it, bound only
\* outside, bound nowhere, and bound to a built-in procedure
Sets ==
  { Call(<<"l", "i", "s", "t", "i", "n", "g">>, <<Defset(<<"v">>, <<"1">>),
                       Call(<<"l", "i", "s", "t", "i", "n", "g">>, <<Defset(<<"v">>, <<"5">>), SetTo(<<"v">>, <<"7">>), Atom(<<"v">>)>>),
                       Atom(<<"v">>)>>),
    Call(<<"l", "i", "s", "t", "i", "n", "g">>, <<Defset(<<"v">>, <<"1">>),
                       Call(<<"l", "i", "s", "t", "i", "n", "g">>, <<SetTo(<<"v">>, <<"7">>), Atom(<<"v">>)>>),
                       Atom(<<"v">>)>>),
    Call(<<"l", "i", "s", "t", "i", "n", "g">>, <<Defset(<<"v">>, <<"1">>), Call(<<"s", "e", "q">>, <<SetTo(<<"w">>, <<"2">>)>>)>>),
    Call(<<"s", "e", "q">>, <<SetTo(<<"s", "e", "q">>, <<"1">>)>>) }

Export(name) == Call(<<"e", "x", "p", "o", "r", "t">>, <<Str(name)>>)

\* a name bound by defset and exported inside the call h(..), and named by
\* the next sibling of that call
Exported ==
  { Call(<<"s", "e", "q">>, <<Call(h, <<Defset(n, <<"3">>), Export(n)>>), Atom(n)>>) :
      h \in {<<"s", "e", "q">>, <<"l", "i", "s", "t", "i", "n", "g">>}, n \in {<<"v">>, <<"w">>} }

\* export of a name bound nowhere, bound to a built-in procedure, bound in
\* the scope it is copied to, and bound both there and nearer
Exports ==
  { Call(<<"s", "e", "q">>, <<Call(<<"s", "e", "q">>, <<Export(<<"w">>)>>)>>),
    Call(<<"s", "e", "q">>, <<Call(<<"s", "e", "q">>, <<Export(<<"s", "e", "q">>)>>)>>),
    Call(<<"l", "i", "s", "t", "i", "n", "g">>, <<Defset(<<"v">>, <<"1">>), Call(<<"s", "e", "q">>, <<Export(<<"v">>)>>), Atom(<<"v">>)>>),
    Call(<<"l", "i", "s", "t", "i", "n", "g">>, <<Defset(<<"v">>, <<"1">>),
                       Call(<<"s", "e", "q">>, <<Call(<<"s", "e", "q">>, <<Defset(<<"v">>, <<"5">>), Export(<<"v">>)>>), Atom(<<"v">>)>>),
                       Atom(<<"v">>)>>) }

\* a block that prints the text and then evaluates to what the block does
Noisy(text, block) == Call(<<"s", "e", "q">>, <<Call(<<"p", "r", "i", "n", "t">>, <<Str(text)>>), block>>)

\* conditions: the integer zero in three spellings, other integers, and
\* values that are not integers (a string, a boolean, void, a list, a block)
Conds ==
  { Atom(<<"0">>), Atom(<<"-", "0">>), Atom(<<"+", "0">>), Atom(<<"1">>), Atom(<<"-", "3">>), Str(<<"0">>), Atom(<<"t", "r", "u", "e">>),
    Atom(<<>>), Call(<<"l", "i", "s", "t", "i", "n", "g">>, <<Atom(<<"0">>)>>), Quote(Atom(<<"0">>)) }

\* if0(c, t, e), ifn0(c, t, e) and if0(c, e, t), where c, t and e print
\* their letter
Ifs ==
  { << Call(<<"i", "f", "0">>, <<Noisy(<<"c">>, c), Noisy(<<"t">>, Atom(<<"1">>)), Noisy(<<"e">>, Atom(<<"2">>))>>),
       Call(<<"i", "f", "n", "0">>, <<Noisy(<<"c">>, c), Noisy(<<"t">>, Atom(<<"1">>)), Noisy(<<"e">>, Atom(<<"2">>))>>),
       Call(<<"i", "f", "0">>, <<Noisy(<<"c">>, c), Noisy(<<"e">>, Atom(<<"2">>)), Noisy(<<"t">>, Atom(<<"1">>))>>) >> :
      c \in Conds }

\* a / b and a % b, alone and as the second child of a listing
Arith ==
  { Call(op, <<Atom(a), Atom(b)>>) :
      op \in {<<"/">>, <<"%">>}, a \in {<<"7">>, <<"-", "7">>, <<"0">>}, b \in {<<"2">>, <<"-", "2">>, <<"0">>} }
  \cup
  { Call(<<"l", "i", "s", "t", "i", "n", "g">>, <<Atom(<<"1">>), Call(op, <<Atom(<<"7">>), Atom(<<"0">>)>>), Atom(<<"2">>)>>) :
      op \in {<<"/">>, <<"%">>} }

Programs ==
  Singles \cup Pairs \cup Named
  \cup { [kind |-> "overwrite", roots |-> <<Overwrite>>],
         [kind |-> "caller", roots |-> <<Caller>>] }
  \cup { [kind |-> "other", roots |-> <<b>>] : b \in Others }
  \cup { [kind |-> "sibling", roots |-> <<b>>] : b \in Siblings }
  \cup { [kind |-> "defset", roots |-> <<b>>] : b \in Defsets }
  \cup { [kind |-> "set", roots |-> <<b>>] : b \in Sets }
  \cup { [kind |-> "exported", roots |-> <<b>>] : b \in Exported }
  \cup { [kind |-> "export", roots |-> <<b>>] : b \in Exports }
  \cup { [kind |-> "if0", roots |-> r] : r \in Ifs }
  \cup { [kind |-> "arith", roots |-> <<b>>] : b \in Arith }

(***************************************************************************)
(* The evaluation itself, one step at a time.  kont is the call stack of   *)
(* the Rust functions that are running, ctl what the innermost one does    *)
(* next.  elog records, for each execute_without_scope (numbered fid in    *)
(* the order they start), the children it evaluates and the call it makes. *)
(* The entry fields remember the stack of chains at the start of an        *)
(* evaluation, heap0 the number of scopes made before an invocation.       *)
(***************************************************************************)
Top == Last(kont)

\* a procedure result on its way back to the execute_without_scope on top of k
Pret(r, k) == [m |-> "pret", r |-> r, entry |-> Last(k).centry]

\* BlockLiteral::execute_without_scope(exec_env, f), up to the execution of
\* the body: the captured chain becomes the active one, a fresh scope is
\* appended to it and f binds the arguments there
BlockLiteral_enter(env, lit, setup) ==
  LET env1 == new_scope(new_scopes(env, lit.scopes)) IN
  IF setup.k = "args" THEN defset_args(env1, setup.args)
  ELSE defset_var_into_last_scope(env1, setup.var, LInt(setup.i))

\* BlockLiteral::execute_without_scope(exec_env, f) after the body returned
\* a value: the fresh scope is popped and the caller's chain reinstated
BlockLiteral_leave(env) ==
  IF ~back_scope(env).ok THEN [ok |-> FALSE]
  ELSE [ok |-> TRUE, env |-> back_scopes(back_scope(env).env)]

\* execute_procedure and execute_procedure_with_bind: "panic", "ret" with
\* the result, "native" with the function, or "block" with the procedure
execute_procedure(env, name) ==
  LET bind == bind_name(env, name) IN
  IF bind.panic THEN [k |-> "panic"]
  ELSE IF bind.v = None THEN [k |-> "ret", r |-> Err(OtherError(UndefinedProcName(name)))]
  ELSE IF bind.v[1].b = "Literal" THEN [k |-> "ret", r |-> Ok(bind.v[1].lit)]
  ELSE LET behavior_or_var == env.heap[bind.v[1].scope].namespace[name] IN
       CASE behavior_or_var.k = "FnProcedure" -> [k |-> "native", f |-> behavior_or_var.f]
         [] behavior_or_var.k = "BlockProcedure" -> [k |-> "block", lit |-> behavior_or_var.lit]
         [] behavior_or_var.k = "Var" -> [k |-> "ret", r |-> Ok(behavior_or_var.lit)]

\* the call of the root frame (fid 1), if it was made
RootCall(log) ==
  LET at == {i \in 1..Len(log) : log[i].e = "call" /\ log[i].fid = 1} IN
  IF at = {} THEN None ELSE Some(log[CHOOSE i \in at : TRUE].args)

InitEval ==
  /\ build \in Builds
  /\ CodecIdle
  /\ ParseIdle
  /\ MainIdle
  /\ epc = "load"
  /\ prog \in Programs
  /\ exec_env = <<>>
  /\ kont = <<>>
  /\ ctl = [m |-> "idle"]
  /\ elog = <<>>
  /\ nfid = 0
  /\ runs = <<>>

\* execute_with_mock up to tree.execute: a run of the next tree of the
\* program with a new ExecuteEnv
RunStart ==
  /\ epc = "load"
  /\ Len(runs) < Len(prog.roots)
  /\ epc' = "run"
  /\ exec_env' = new_scope(ExecuteEnv_new(predefined_procs))
  /\ kont' = << [f |-> "top"] >>
  /\ ctl' = [m |-> "execute", block |-> prog.roots[Len(runs) + 1]]
  /\ elog' = <<>>
  /\ nfid' = 0
  /\ UNCHANGED <<prog, runs, build>>
  /\ UNCHANGED <<codecVars, parseVars, mainVars>>

\* Block::execute: new_scope, then execute_without_scope
Execute ==
  /\ epc = "run"
  /\ ctl.m = "execute"
  /\ exec_env' = new_scope(exec_env)
  /\ kont' = Append(kont, [f |-> "execute", entry |-> exec_env.scopes])
  /\ ctl' = [m |-> "ews", block |-> ctl.block, entry |-> exec_env'.scopes]
  /\ UNCHANGED <<epc, prog, elog, nfid, runs, build>>
  /\ UNCHANGED <<codecVars, parseVars, mainVars>>

\* execute_without_scope of a quoted block
EvalQuote ==
  /\ epc = "run"
  /\ ctl.m = "ews"
  /\ ctl.block.quote
  /\ ctl' = [m |-> "ret", via |-> "quote", entry |-> ctl.entry,
             r |-> Ok(LBlock(block_to_literal(exec_env, ClearQuote(ctl.block))))]
  /\ elog' = Append(elog, [e |-> "closure", scopes |-> get_last_scopes(exec_env)])
  /\ UNCHANGED <<epc, prog, exec_env, kont, nfid, runs, build>>
  /\ UNCHANGED <<codecVars, parseVars, mainVars>>

\* execute_without_scope of a block that is not quoted: pure_exec_args = vec![]
StartArgs ==
  /\ epc = "run"
  /\ ctl.m = "ews"
  /\ ~ctl.block.quote
  /\ nfid' = nfid + 1
  /\ kont' = Append(kont, [f |-> "args", fid |-> nfid + 1, block |-> ctl.block,
                           pure_exec_args |-> <<>>, entry |-> ctl.entry,
                           centry |-> <<>>])
  /\ ctl' = [m |-> "loop"]
  /\ UNCHANGED <<epc, prog, exec_env, elog, runs, build>>
  /\ UNCHANGED <<codecVars, parseVars, mainVars>>

\* the loop over self.args: arg.execute(exec_env) of the next child
NextArg ==
  /\ epc = "run"
  /\ ctl.m = "loop"
  /\ Len(Top.pure_exec_args) < Len(Top.block.args)
  /\ ctl' = [m |-> "execute", block |-> Top.block.args[Len(Top.pure_exec_args) + 1].block]
  /\ elog' = Append(elog, [e |-> "child", fid |-> Top.fid,
                           idx |-> Len(Top.pure_exec_args) + 1])
  /\ UNCHANGED <<epc, prog, exec_env, kont, nfid, runs, build>>
  /\ UNCHANGED <<codecVars, parseVars, mainVars>>

\* the loop over self.args: the child has returned
ArgReturned ==
  /\ epc = "run"
  /\ ctl.m = "ret"
  /\ Top.f = "args"
  /\ LET self == Top.block
         pure_exec_args == Top.pure_exec_args
         idx == Len(pure_exec_args) + 1
     IN IF ~ctl.r.ok
        THEN LET err == create_inherite_error(self, ctl.r.e, pure_exec_args) IN
             /\ kont' = Front(kont)
             /\ ctl' = [m |-> "ret", via |-> "child", entry |-> Top.entry, r |-> Err(err)]
             /\ elog' = Append(elog, [e |-> "childfail", fid |-> Top.fid, idx |-> idx,
                                      self |-> self, pure_exec_args |-> pure_exec_args,
                                      cause |-> ctl.r.e, err |-> err])
        ELSE IF self.args[idx].expand /\ ctl.r.v.t # "List"
        THEN LET err == create_error(self, None, NeedsList(Literal_to_string(ctl.r.v)),
                                     pure_exec_args) IN
             /\ kont' = Front(kont)
             /\ ctl' = [m |-> "ret", via |-> "expand", entry |-> Top.entry, r |-> Err(err)]
             /\ elog' = Append(elog, [e |-> "notlist", fid |-> Top.fid, idx |-> idx,
                                      err |-> err])
        ELSE /\ kont' = Append(Front(kont),
                               [Top EXCEPT !.pure_exec_args = Append(@, ctl.r.v)])
             /\ ctl' = [m |-> "loop"]
             /\ elog' = elog
  /\ UNCHANGED <<epc, prog, exec_env, nfid, runs, build>>
  /\ UNCHANGED <<codecVars, parseVars, mainVars>>

\* exec_env.execute_procedure(&self.proc_name, &expanded_args)
CallProcedure ==
  /\ epc = "run"
  /\ ctl.m = "loop"
  /\ Len(Top.pure_exec_args) = Len(Top.block.args)
  /\ LET args == expanded_args(Top.block, Top.pure_exec_args)
         call == execute_procedure(exec_env, Top.block.proc_name)
         k == Append(Front(kont), [Top EXCEPT !.centry = exec_env.scopes])
     IN /\ kont' = k
        /\ elog' = Append(elog, [e |-> "call", fid |-> Top.fid, self |-> Top.block,
                                 pure_exec_args |-> Top.pure_exec_args, args |-> args,
                                 bind |-> bind_name(exec_env, Top.block.proc_name)])
        /\ ctl' = CASE call.k = "panic" -> [m |-> "panic"]
                    [] call.k = "ret" -> Pret(call.r, k)
                    [] call.k = "native" -> [m |-> "native", f |-> call.f, args |-> args]
                    [] call.k = "block" ->
                         [m |-> "litexec", lit |-> call.lit,
                          setup |-> [k |-> "args", args |-> args]]
  /\ UNCHANGED <<epc, prog, exec_env, nfid, runs, build>>
  /\ UNCHANGED <<codecVars, parseVars, mainVars>>

\* be(self, exec_args) of a FnProcedure
CallNative ==
  /\ epc = "run"
  /\ ctl.m = "native"
  /\ LET n == native(ctl.f, exec_env, ctl.args, build) IN
     CASE n.k = "panic" ->
            /\ ctl' = [m |-> "panic"]
            /\ UNCHANGED <<exec_env, kont>>
       [] n.k = "ret" ->
            /\ exec_env' = n.env
            /\ ctl' = Pret(n.r, kont)
            /\ UNCHANGED kont
       [] n.k = "for" ->
            /\ kont' = Append(kont, [f |-> "for", times |-> n.times, var |-> n.var,
                                     child |-> n.child, i |-> 0])
            /\ ctl' = [m |-> "forloop"]
            /\ UNCHANGED exec_env
       [] n.k = "exec" ->
            /\ ctl' = [m |-> "litexec", lit |-> n.lit,
                       setup |-> [k |-> "args", args |-> n.list]]
            /\ UNCHANGED <<exec_env, kont>>
       [] n.k = "run" ->
            /\ exec_env' = n.env
            /\ kont' = Append(kont, [f |-> "include", freezed |-> n.freezed])
            /\ ctl' = [m |-> "ews", block |-> n.block, entry |-> n.env.scopes]
  /\ UNCHANGED <<epc, prog, elog, nfid, runs, build>>
  /\ UNCHANGED <<codecVars, parseVars, mainVars>>

\* for i in 0..times
ForNext ==
  /\ epc = "run"
  /\ ctl.m = "forloop"
  /\ IF Top.i < Top.times
     THEN /\ kont' = Append(Front(kont), [Top EXCEPT !.i = @ + 1])
          /\ ctl' = [m |-> "litexec", lit |-> Top.child,
                     setup |-> [k |-> "var", var |-> Top.var, i |-> Top.i]]
     ELSE /\ kont' = Front(kont)
          /\ ctl' = Pret(Ok(LVoid), Front(kont))
  /\ UNCHANGED <<epc, prog, exec_env, elog, nfid, runs, build>>
  /\ UNCHANGED <<codecVars, parseVars, mainVars>>

\* BlockLiteral::execute_without_scope(exec_env, f): the body starts
ExecLiteral ==
  /\ epc = "run"
  /\ ctl.m = "litexec"
  /\ exec_env' = BlockLiteral_enter(exec_env, ctl.lit, ctl.setup)
  /\ kont' = Append(kont, [f |-> "body", lit |-> ctl.lit, entry |-> exec_env.scopes,
                           heap0 |-> Len(exec_env.heap)])
  /\ ctl' = [m |-> "ews", block |-> ctl.lit.block, entry |-> exec_env'.scopes]
  /\ UNCHANGED <<epc, prog, elog, nfid, runs, build>>
  /\ UNCHANGED <<codecVars, parseVars, mainVars>>

\* BlockLiteral::execute_without_scope(exec_env, f): the body has returned,
\* to for (which goes on, or returns the error with ?) or to the procedure
\* call (map_err to CausedByBlockExec)
BodyReturned ==
  /\ epc = "run"
  /\ ctl.m = "ret"
  /\ Top.f = "body"
  /\ LET under == Front(kont)
         infor == Last(under).f = "for"
         leave == BlockLiteral_leave(exec_env)
     IN IF ~ctl.r.ok
        THEN /\ kont' = IF infor THEN Front(under) ELSE under
             /\ ctl' = Pret(Err(CausedByBlockExec(ctl.r.e)), kont')
             /\ UNCHANGED exec_env
        ELSE IF ~leave.ok
        THEN /\ ctl' = [m |-> "panic"]
             /\ UNCHANGED <<exec_env, kont>>
        ELSE /\ exec_env' = leave.env
             /\ kont' = under
             /\ ctl' = IF infor THEN [m |-> "forloop"] ELSE Pret(ctl.r, under)
  /\ UNCHANGED <<epc, prog, elog, nfid, runs, build>>
  /\ UNCHANGED <<codecVars, parseVars, mainVars>>

\* ExecuteEnv::include: the block of the file has returned
IncludeReturned ==
  /\ epc = "run"
  /\ ctl.m = "ret"
  /\ Top.f = "include"
  /\ LET leave == include_leave(exec_env, Top.freezed) IN
     IF ~ctl.r.ok
     THEN /\ kont' = Front(kont)
          /\ ctl' = Pret(Err(CausedByBlockExec(ctl.r.e)), Front(kont))
          /\ UNCHANGED exec_env
     ELSE IF ~leave.ok
     THEN /\ ctl' = [m |-> "panic"]
          /\ UNCHANGED <<exec_env, kont>>
     ELSE /\ exec_env' = leave.env
          /\ kont' = Front(kont)
          /\ ctl' = Pret(ctl.r, Front(kont))
  /\ UNCHANGED <<epc, prog, elog, nfid, runs, build>>
  /\ UNCHANGED <<codecVars, parseVars, mainVars>>

\* execute_without_scope returns the result of execute_procedure, map_err'ed
ProcReturned ==
  /\ epc = "run"
  /\ ctl.m = "pret"
  /\ kont' = Front(kont)
  /\ ctl' = [m |-> "ret", via |-> "proc", entry |-> Top.entry,
             r |-> IF ctl.r.ok THEN ctl.r
                   ELSE Err(map_proc_error(Top.block, ctl.r.e, Top.pure_exec_args))]
  /\ UNCHANGED <<epc, prog, exec_env, elog, nfid, runs, build>>
  /\ UNCHANGED <<codecVars, parseVars, mainVars>>

\* Block::execute after execute_without_scope: ? returns an error as it is,
\* a value is returned after back_scope
ExecuteReturned ==
  /\ epc = "run"
  /\ ctl.m = "ret"
  /\ Top.f = "execute"
  /\ IF ~ctl.r.ok
     THEN /\ kont' = Front(kont)
          /\ ctl' = [ctl EXCEPT !.entry = Top.entry, !.via = "execute"]
          /\ UNCHANGED exec_env
     ELSE IF ~back_scope(exec_env).ok
     THEN /\ ctl' = [m |-> "panic"]
          /\ UNCHANGED <<exec_env, kont>>
     ELSE /\ exec_env' = back_scope(exec_env).env
          /\ kont' = Front(kont)
          /\ ctl' = [ctl EXCEPT !.entry = Top.entry, !.via = "execute"]
  /\ UNCHANGED <<epc, prog, elog, nfid, runs, build>>
  /\ UNCHANGED <<codecVars, parseVars, mainVars>>

\* execute_with_mock after tree.execute: back_scope, and the result
RunEnd ==
  /\ epc = "run"
  /\ ctl.m = "ret"
  /\ Top.f = "top"
  /\ IF ~back_scope(exec_env).ok
     THEN /\ ctl' = [m |-> "panic"]
          /\ UNCHANGED <<epc, exec_env, kont, runs>>
     ELSE /\ exec_env' = back_scope(exec_env).env
          /\ kont' = <<>>
          /\ ctl' = [m |-> "idle"]
          /\ runs' = Append(runs, [panic |-> FALSE, result |-> ctl.r, out |-> exec_env.out,
                                   call |-> RootCall(elog)])
          /\ epc' = IF Len(runs') < Len(prog.roots) THEN "load" ELSE "done"
  /\ UNCHANGED <<prog, elog, nfid, build>>
  /\ UNCHANGED <<codecVars, parseVars, mainVars>>

\* a panic ends the process
RunPanic ==
  /\ epc = "run"
  /\ ctl.m = "panic"
  /\ kont' = <<>>
  /\ ctl' = [m |-> "idle"]
  /\ runs' = Append(runs, [panic |-> TRUE, out |-> exec_env.out, call |-> RootCall(elog)])
  /\ epc' = IF Len(runs') < Len(prog.roots) THEN "load" ELSE "done"
  /\ UNCHANGED <<prog, exec_env, elog, nfid, build>>
  /\ UNCHANGED <<codecVars, parseVars, mainVars>>

NextEval ==
  \/ RunStart
  \/ Execute
  \/ EvalQuote
  \/ StartArgs
  \/ NextArg
  \/ ArgReturned
  \/ CallProcedure
  \/ CallNative
  \/ ForNext
  \/ ExecLiteral
  \/ BodyReturned
  \/ IncludeReturned
  \/ ProcReturned
  \/ ExecuteReturned
  \/ RunEnd
  \/ RunPanic

SpecEval == InitEval /\ [][NextEval]_vars

(***************************************************************************)
(* Properties of the evaluator.                                            *)
(***************************************************************************)
\* the positions in elog of the events of kind e of the frame fid
EventsOf(e, fid) == {p \in DOMAIN elog : elog[p].e = e /\ elog[p].fid = fid}

\* C5: the children of a block are evaluated in index order; when child k
\* fails, no later child is evaluated, the procedure of the block is not
\* called, and the error tree of the block has one child per argument:
\* Success(result) before k, at k the error node of the failing child (its
\* result, children and proc_name), Unreached after k.
C5_ChildFailure ==
  /\ \A p \in DOMAIN elog :
       elog[p].e = "child" =>
         Cardinality({q \in EventsOf("child", elog[p].fid) : q < p}) = elog[p].idx - 1
  /\ \A p \in DOMAIN elog :
       elog[p].e = "childfail" =>
         LET ev == elog[p]
             n == Len(ev.self.args)
             nodes == ev.err.root.children
         IN /\ \A q \in EventsOf("child", ev.fid) : elog[q].idx <= ev.idx /\ q < p
            /\ EventsOf("call", ev.fid) = {}
            /\ ev.err.root.result = Error
            /\ Len(nodes) = n
            /\ \A i \in 1..n :
                 IF i < ev.idx THEN nodes[i].result = Success(ev.pure_exec_args[i])
                 ELSE IF i = ev.idx
                 THEN /\ nodes[i].result = Error
                      /\ nodes[i].children = ev.cause.root.children
                      /\ nodes[i].proc_name = ev.self.args[i].block.proc_name
                 ELSE nodes[i].result = Unreached

\* the second of three children has failed, with children of its own
C5_Witness ==
  \E p \in DOMAIN elog :
    /\ elog[p].e = "childfail"
    /\ Len(elog[p].self.args) = 3
    /\ elog[p].idx = 2
    /\ elog[p].cause.root.children # <<>>

\* the argument vector by the rule of the specification: the elements of an
\* expand child, the value of any other child, in child order
RECURSIVE Splice(_, _)
Splice(self_args, values) ==
  IF values = <<>> THEN <<>>
  ELSE (IF Head(self_args).expand THEN Head(values).l ELSE <<Head(values)>>)
       \o Splice(Tail(self_args), Tail(values))

\* what a run gave: the value, or the message of the error
Outcome(run) ==
  IF run.result.ok THEN [ok |-> TRUE, v |-> run.result.v]
  ELSE [ok |-> FALSE, msg |-> run.result.e.msg]

\* a child that, evaluated as an argument, binds a name in the frame of the
\* block it is an argument of
BindsInFrame(block) == block.proc_name \in {<<"d", "e", "f", "s", "e", "t">>, <<"d", "e", "f", "p", "r", "o", "c">>, <<"i", "n", "c", "l", "u", "d", "e">>}

BothFormsRun == epc = "done" /\ prog.kind = "pair"

SplicedInOrder ==
  \A p \in DOMAIN elog :
    elog[p].e = "call" => elog[p].args = Splice(elog[p].self.args, elog[p].pure_exec_args)

NotListFails ==
  \A p \in DOMAIN elog :
    elog[p].e = "notlist" =>
      /\ elog[p].err.msg.kind = NeedsList(<<>>).kind
      /\ EventsOf("call", elog[p].fid) = {}
      /\ \A q \in EventsOf("child", elog[p].fid) : elog[q].idx <= elog[p].idx

\* C6, as the specification has it: the argument vector is the concatenation, in child order,
\* of the elements of the expand children and the values of the others;
\* f(@listing(x, y, z)) calls f with the same arguments and gives the same
\* result as f(x, y, z); an expand child that is not a List fails the block
\* with the expand-not-list error, without the call and without evaluating
\* later children.
C6_SpliceSameResult ==
  /\ SplicedInOrder
  /\ NotListFails
  /\ BothFormsRun => runs[1].call = runs[2].call
  /\ BothFormsRun => Outcome(runs[1]) = Outcome(runs[2])

\* C6, amended: as above, but the two forms give the same result provided
\* none of x, y, z binds a name in the frame of the block it is an argument
\* of (in f(x, y, z) that frame is f's, where f is resolved; in
\* f(@listing(x, y, z)) it is listing's, which is gone when f is resolved).
C6_SpliceSameResultUnlessBound ==
  /\ SplicedInOrder
  /\ NotListFails
  /\ BothFormsRun => runs[1].call = runs[2].call
  /\ (BothFormsRun /\ \A i \in DOMAIN prog.roots[1].args :
                         ~BindsInFrame(prog.roots[1].args[i].block))
       => Outcome(runs[1]) = Outcome(runs[2])

\* both forms of a call with three arguments have returned the same value
C6_Witness ==
  /\ BothFormsRun
  /\ Len(prog.roots[1].args) = 3
  /\ \A i \in 1..3 : ~BindsInFrame(prog.roots[1].args[i].block)
  /\ runs[1].result.ok
  /\ runs[1].result.v = LList(<<LInt(1), LList(<<LInt(1), LInt(2)>>), LVoid>>)
  /\ runs[2].result = runs[1].result

\* the resolution of a name by the rules of the specification, in their order
Wrapped(name) == Len(name) >= 2 /\ name[1] = "\"" /\ name[Len(name)] = "\""
SignedDecimal(name) ==
  LET body == IF name # <<>> /\ name[1] \in {"+", "-"} THEN Tail(name) ELSE name IN
  /\ body # <<>>
  /\ \A i \in DOMAIN body : body[i] \in {"0", "1", "2", "3", "4", "5", "6", "7", "8", "9"}
RECURSIVE DecimalValue(_)
DecimalValue(body) ==
  IF body = <<>> THEN 0
  ELSE 10 * DecimalValue(Front(body))
       + (CHOOSE d \in 0..9 : to_string(d) = <<Last(body)>>)
SignedValue(name) ==
  IF name[1] = "-" THEN 0 - DecimalValue(Tail(name))
  ELSE IF name[1] = "+" THEN DecimalValue(Tail(name))
  ELSE DecimalValue(name)
Resolution(chain, heap, name) ==
  LET binding == {i \in DOMAIN chain : name \in DOMAIN heap[chain[i]].namespace} IN
  IF binding # {}
  THEN Some(Namespace(chain[CHOOSE i \in binding : \A j \in binding : j <= i]))
  ELSE IF Wrapped(name) THEN Some(Literal(LString(SubSeq(name, 2, Len(name) - 1))))
  ELSE IF SignedDecimal(name) THEN Some(Literal(LInt(SignedValue(name))))
  ELSE IF name = <<"t", "r", "u", "e">> THEN Some(Literal(LBoolean(TRUE)))
  ELSE IF name = <<"f", "a", "l", "s", "e">> THEN Some(Literal(LBoolean(FALSE)))
  ELSE IF name = <<>> THEN Some(Literal(LVoid))
  ELSE None

\* a block is about to call execute_procedure
AboutToCall ==
  /\ epc = "run"
  /\ ctl.m = "loop"
  /\ Len(Top.pure_exec_args) = Len(Top.block.args)

\* C7: a proc_name is resolved by the first alternative that applies: the
\* nearest scope of the active chain that binds it; String of the inner
\* text of a name wrapped in double quotes; Int of a signed decimal integer;
\* Boolean of true or false; Void of the empty string; otherwise the
\* resolution fails with the undefined-procedure error.
C7_ResolutionOrder ==
  AboutToCall =>
    LET name == Top.block.proc_name
        expected == Resolution(Last(exec_env.scopes), exec_env.heap, name)
    IN /\ ~bind_name(exec_env, name).panic
       /\ bind_name(exec_env, name).v = expected
       /\ expected = None =>
            execute_procedure(exec_env, name)
              = [k |-> "ret", r |-> Err(OtherError(UndefinedProcName(name)))]

\* C8: the evaluation of a node whose quote flag is set evaluates no child,
\* calls no procedure, prints nothing and binds nothing; it yields a block
\* value whose tree is the node with the quote of the node itself cleared
\* and that of every descendant kept.
C8_QuoteYieldsBlock ==
  [][(epc = "run" /\ ctl.m = "ews" /\ ctl.block.quote) =>
       /\ exec_env' = exec_env
       /\ kont' = kont
       /\ \A p \in DOMAIN elog' : p > Len(elog) => elog'[p].e \notin {"child", "call"}
       /\ ctl'.m = "ret"
       /\ ctl'.r.ok
       /\ ctl'.r.v.t = "Block"
       /\ ctl'.r.v.lit.block.proc_name = ctl.block.proc_name
       /\ ctl'.r.v.lit.block.args = ctl.block.args
       /\ ~ctl'.r.v.lit.block.quote]_vars

\* a quoted node with a printing child and a quoted child has been
\* evaluated, and nothing is printed
C8_Witness ==
  /\ epc = "run"
  /\ ctl.m = "ret"
  /\ ctl.via = "quote"
  /\ ctl.r.v.lit.block = ClearQuote(Quoted)
  /\ ctl.r.v.lit.block.args[2].block.quote
  /\ exec_env.out = <<>>

\* C9: a closure or user procedure runs on the very scopes of the chain
\* that was active when it was made, followed only by scopes made for the
\* invocation: it reads the value v has in those scopes when it runs (2
\* after v, 1 when the closure was made, was set to 2 there), never a
\* binding of v in a frame of its caller.
C9_CapturedByReference ==
  /\ \A i \in DOMAIN kont :
       kont[i].f = "body" =>
         LET captured == kont[i].lit.scopes
             active == exec_env.scopes[Len(kont[i].entry) + 1]
         IN /\ \E p \in DOMAIN elog : elog[p].e = "closure" /\ elog[p].scopes = captured
            /\ Len(active) >= Len(captured)
            /\ SubSeq(active, 1, Len(captured)) = captured
            /\ \A j \in DOMAIN active : j > Len(captured) => active[j] > kont[i].heap0
  /\ (epc = "done" /\ prog.kind = "overwrite") => runs[1].result = Ok(LInt(2))
  /\ (epc = "done" /\ prog.kind = "caller") => runs[1].result = Ok(LInt(1))

\* the closure made when v was 1 is running after v was set to 2, and reads v
C9_Witness ==
  /\ epc = "run"
  /\ prog.kind = "overwrite"
  /\ ctl.m = "pret"
  /\ Last(kont).block.proc_name = <<"g", "e", "t">>
  /\ \E i \in DOMAIN kont : kont[i].f = "body"
  /\ ctl.r = Ok(LInt(2))

\* C10: when the evaluation of a block, or the call of a procedure (native,
\* user procedure, closure or include), returns a value, the stack of scope
\* chains is what it was when that evaluation started, scope for scope; and
\* no chain is ever empty.
C10_ScopesRestored ==
  /\ (epc = "run" /\ ctl.m \in {"ret", "pret"} /\ ctl.r.ok) => exec_env.scopes = ctl.entry
  /\ epc = "run" =>
       /\ exec_env.scopes # <<>>
       /\ \A i \in DOMAIN exec_env.scopes : exec_env.scopes[i] # <<>>

\* exec of a closure whose body is an include has returned a value
C10_Witness ==
  /\ epc = "run"
  /\ ctl.m = "pret"
  /\ ctl.r.ok
  /\ Last(kont).block = Call(<<"e", "x", "e", "c">>, <<Quote(Call(<<"i", "n", "c", "l", "u", "d", "e">>, <<Str(<<"m">>)>>))>>)
  /\ exec_env.scopes = ctl.entry

\* env1 is env0 but for the binding of name in scope, which is val
OnlyBinds(env0, env1, scope, name, val) ==
  /\ env1.scopes = env0.scopes
  /\ env1.out = env0.out
  /\ Len(env1.heap) = Len(env0.heap)
  /\ \A s \in 1..Len(env0.heap) :
       /\ env1.heap[s].paths = env0.heap[s].paths
       /\ DOMAIN env1.heap[s].namespace =
            DOMAIN env0.heap[s].namespace \cup (IF s = scope THEN {name} ELSE {})
       /\ \A n \in DOMAIN env1.heap[s].namespace :
            env1.heap[s].namespace[n] =
              IF s = scope /\ n = name THEN val ELSE env0.heap[s].namespace[n]

\* a built-in procedure is about to run with arguments of the declared types
NativeCall(f) ==
  epc = "run" /\ ctl.m = "native" /\ ctl.f = f /\ initialize_vars(ctl.f, ctl.args).k = "ok"

\* the scope at the given distance from the innermost one of the active chain
Outer(env, distance) == Last(env.scopes)[Len(Last(env.scopes)) - distance]

\* C11: defset(name, v) binds name to the variable v in the scope next to the
\* innermost one of the active chain, replacing a binding of name there, and
\* changes no other scope, no other name and nothing else of the
\* environment; a name bound inside a call that has returned is undefined
\* for the next sibling of that call.
C11_DefsetBindsInCallerFrame ==
  /\ [][NativeCall(<<"d", "e", "f", "s", "e", "t">>) =>
          /\ OnlyBinds(exec_env, exec_env', Outer(exec_env, 1), ctl.args[1].s, Var(ctl.args[2]))
          /\ ctl'.m = "pret"
          /\ ctl'.r = Ok(LVoid)]_vars
  /\ [](epc = "done" /\ prog.kind = "sibling" =>
          /\ ~runs[1].panic
          /\ ~runs[1].result.ok
          /\ runs[1].result.e.msg = UndefinedProcName(prog.roots[1].args[2].block.proc_name))

\* the second defset of v in one frame has run and replaced the binding
C11_Witness ==
  /\ epc = "run"
  /\ prog.roots[1] = Call(<<"l", "i", "s", "t", "i", "n", "g">>, <<Defset(<<"v">>, <<"1">>), Defset(<<"v">>, <<"5">>), Atom(<<"v">>)>>)
  /\ ctl.m = "pret"
  /\ Top.block = Defset(<<"v">>, <<"5">>)
  /\ exec_env.heap[Outer(exec_env, 1)].namespace[<<"v">>] = Var(LInt(5))

\* the positions of the active chain whose scope binds name
Binders(env, name) ==
  {i \in 1..Len(Last(env.scopes)) : name \in DOMAIN env.heap[Last(env.scopes)[i]].namespace}

\* the scope of the active chain that binds name and is nearest to the
\* innermost one
Nearest(env, name) ==
  Last(env.scopes)[CHOOSE i \in Binders(env, name) : \A j \in Binders(env, name) : i >= j]

C13_ExportCopiesTwoOut ==
  /\ [][NativeCall(<<"e", "x", "p", "o", "r", "t">>) =>
          /\ ctl'.m = "pret"
          /\ IF Binders(exec_env, ctl.args[1].s) # {}
             THEN /\ OnlyBinds(exec_env, exec_env', Outer(exec_env, 2), ctl.args[1].s,
                               exec_env.heap[Nearest(exec_env, ctl.args[1].s)].namespace[ctl.args[1].s])
                  /\ exec_env'.heap[Nearest(exec_env, ctl.args[1].s)].namespace[ctl.args[1].s] =
                       exec_env.heap[Nearest(exec_env, ctl.args[1].s)].namespace[ctl.args[1].s]
                  /\ ctl'.r = Ok(LVoid)
             ELSE /\ exec_env' = exec_env
                  /\ ctl'.r = Err(OtherError(NotDefined(ctl.args[1].s)))]_vars
  /\ [](epc = "done" /\ prog.kind = "exported" =>
          /\ ~runs[1].panic
          /\ runs[1].result = Ok(LInt(3)))

\* export has copied the binding made by defset in the frame of the call
\* into the frame outside it
C13_Witness ==
  /\ epc = "run"
  /\ prog.kind = "exported"
  /\ ctl.m = "pret"
  /\ Top.block = Export(<<"v">>)
  /\ <<"v">> \in DOMAIN exec_env.heap[Outer(exec_env, 1)].namespace
  /\ <<"v">> \in DOMAIN exec_env.heap[Outer(exec_env, 2)].namespace
  /\ exec_env.heap[Outer(exec_env, 2)].namespace[<<"v">>] = Var(LInt(3))

\* the coordinate next to the fragment f in its direction of travel: one row
\* up or down, the start column of the cell before, or the column after the
\* cell; before the first row or column it is usize::MAX
Ahead(sc, f) ==
  CASE f.ori = "Up" -> <<f.x, IF f.y = 0 THEN UsizeMax ELSE f.y - 1>>
    [] f.ori = "Down" -> <<f.x, f.y + 1>>
    [] f.ori = "Right" -> <<f.x + get(sc, f.x, f.y)[1].len, f.y>>
    [] f.ori = "Left" ->
         LET before == {i \in 1..Len(sc[f.y + 1]) : sc[f.y + 1][i].x < f.x} IN
         IF before = {} THEN <<IF f.x = 0 THEN UsizeMax ELSE f.x - 1, f.y>>
         ELSE <<sc[f.y + 1][CHOOSE i \in before : \A j \in before : i >= j].x, f.y>>

\* the direction in which an edge that arrives in direction ori leaves the
\* character ch; "" when the character does not continue the edge
Turn(ori, ch) ==
  CASE ori = "Up" /\ ch = "V" -> "Up"
    [] ori = "Up" /\ ch = "TR" -> "Left"
    [] ori = "Up" /\ ch = "TL" -> "Right"
    [] ori = "Left" /\ ch = "BL" -> "Up"
    [] ori = "Left" /\ ch = "H" -> "Left"
    [] ori = "Left" /\ ch = "TL" -> "Down"
    [] ori = "Right" /\ ch = "BR" -> "Up"
    [] ori = "Right" /\ ch = "H" -> "Right"
    [] ori = "Right" /\ ch = "TR" -> "Down"
    [] ori = "Down" /\ ch = "BR" -> "Left"
    [] ori = "Down" /\ ch = "BL" -> "Right"
    [] ori = "Down" /\ ch = "V" -> "Down"
    [] OTHER -> ""

\* no found block has its block-plug at (x, y)
NoBlockPlugAt(bs, x, y) ==
  \A i \in 1..Len(bs) :
    bs[i].block_plug = None \/ bs[i].block_plug[1].x # x \/ bs[i].block_plug[1].y # y

\* the cell at p is absent or does not continue an edge that arrives from f
StopsAt(sc, f, p) ==
  \/ get(sc, p[1], p[2]) = None
  \/ Turn(f.ori, get(sc, p[1], p[2])[1].char) = ""

\* C14: when the trace from an arg-plug stops at a coordinate where no found
\* block has its block-plug, connect_blocks returns DanglingArgEdge; the
\* error carries the block that owns the arg-plug, the arg-plug (the first
\* one of that block without an edge), the fragments in the order they were
\* traversed (each is the cell ahead of the one before, and leaves it in the
\* direction its character gives), and the coordinate ahead of the last
\* fragment, whose cell is absent or continues no edge in that direction.
C14_DanglingArgEdge ==
  /\ [][(ppc = "stopped" /\ NoBlockPlugAt(blocks, conn.mut_x, conn.mut_y)) =>
          (presult' # None /\ presult'[1].tag = "DanglingArgEdge")]_vars
  /\ []((presult # None /\ presult[1].tag = "DanglingArgEdge") =>
          LET e == presult[1]
              frs == e.edge_fragments
              from(n) == IF n = 1 THEN e.arg_plug ELSE frs[n - 1]
          IN /\ \E i \in 1..Len(blocks) :
                   /\ blocks[i] = e.block_of_arg_plug
                   /\ Len(blocks[i].args) < Len(blocks[i].arg_plugs)
                   /\ e.arg_plug = blocks[i].arg_plugs[Len(blocks[i].args) + 1]
             /\ \A n \in 1..Len(frs) :
                   /\ <<frs[n].x, frs[n].y>> = Ahead(splited_code, from(n))
                   /\ ~StopsAt(splited_code, from(n), <<frs[n].x, frs[n].y>>)
                   /\ frs[n].ori = Turn(from(n).ori, get(splited_code, frs[n].x, frs[n].y)[1].char)
             /\ e.dangling_position = Ahead(splited_code, from(Len(frs) + 1))
             /\ StopsAt(splited_code, from(Len(frs) + 1), e.dangling_position)
             /\ NoBlockPlugAt(blocks, e.dangling_position[1], e.dangling_position[2]))

\* an edge of several fragments that ends at a character of the grid
C14_Witness ==
  /\ ppc = "done"
  /\ presult[1].tag = "DanglingArgEdge"
  /\ Len(presult[1].edge_fragments) >= 2
  /\ get(splited_code, presult[1].dangling_position[1], presult[1].dangling_position[2]) # None

\* the characters that mark a block-plug
PlugMarkers == {"UT", "DOT", "SL"}

\* the 1-based indices, in row y, of the top edge that starts at the corner
\* with index i0: the cells after the corner up to the first one that is
\* neither a line nor a marker
TopEdge(sc, y, i0) ==
  {j \in (i0 + 1)..Len(sc[y + 1]) :
     \A k \in (i0 + 1)..j : sc[y + 1][k].char \in {"H"} \cup PlugMarkers}

\* the cells of that top edge that are markers
MarkersOn(sc, y, i0) == {j \in TopEdge(sc, y, i0) : sc[y + 1][j].char \in PlugMarkers}

\* C15: no returned block starts at a corner whose top edge has more than one
\* block-plug marker; every returned block has at most one block-plug, which
\* is the one marker of its top edge, on the block's top row strictly
\* between its two top corners, and none when the edge has no marker.
C15_AtMostOneBlockPlug ==
  /\ \A y \in 0..(Len(splited_code) - 1) :
       \A i0 \in 1..Len(splited_code[y + 1]) :
         (splited_code[y + 1][i0].char = "TL"
            /\ Cardinality(MarkersOn(splited_code, y, i0)) > 1) =>
           \A i \in 1..Len(blocks) :
             ~(blocks[i].x = splited_code[y + 1][i0].x /\ blocks[i].y = y)
  /\ \A i \in 1..Len(blocks) :
       LET blk == blocks[i]
           i0 == IndexOfX(splited_code[blk.y + 1], blk.x)
           marks == MarkersOn(splited_code, blk.y, i0)
       IN /\ Cardinality(marks) <= 1
          /\ (blk.block_plug = None) = (marks = {})
          /\ blk.block_plug # None =>
               /\ blk.block_plug[1].y = blk.y
               /\ blk.block_plug[1].x \in {splited_code[blk.y + 1][j].x : j \in marks}
               /\ blk.block_plug[1].x > blk.x
               /\ blk.block_plug[1].x < blk.x + blk.width - CharLen("TR", pin.mode)

\* the rectangle with two markers is in the grid and find_blocks has
\* returned only the other block
C15_Witness ==
  /\ ppc = "found"
  /\ pin.lines = GridPlugs
  /\ Len(blocks) = 1
  /\ Cardinality(MarkersOn(splited_code, 3, 1)) = 2

\* the records of the nodes of t in depth-first pre-order, leftmost child
\* first: the kind, the length of the name in four bytes with the most
\* significant first, the name, the child count in one byte (modulo 256 when
\* it does not fit), and one flag per child from left to right
RECURSIVE Records(_)
Records(t) ==
  LET n == Len(t.args)
      kids[i \in 0..n] == IF i = 0 THEN <<>> ELSE kids[i - 1] \o Records(t.args[i].block)
  IN << IF t.quote = "None" THEN 1 ELSE IF t.quote = "Quote" THEN 2 ELSE 3 >>
     \o << 0, 0, Len(t.proc_name) \div 256, Len(t.proc_name) % 256 >>
     \o t.proc_name
     \o << IF n < 256 THEN n ELSE n - 256 >>
     \o [i \in 1..n |-> IF t.args[i].expand THEN 1 ELSE 0]
     \o kids[n]

\* C16: the bytes returned by to_intermed_repr are the header 1, 0, 0, 0, 5
\* followed by one record per node in depth-first pre-order with the leftmost
\* child first; a record is the kind byte (Normal 1, Quote 2, Closure 3), the
\* byte length of the name as a 4-byte big-endian integer, the name, one
\* child-count byte and one flag byte per child (0 normal, 1 expand) from
\* left to right.
C16_RecordLayout ==
  cpc = "encoded" => code = <<1, 0, 0, 0, 5>> \o Records(tree)

\* the bytes of the tree whose first child has a child are complete
C16_Witness ==
  /\ cpc = "encoded"
  /\ tree = Bushy
  /\ code = <<1, 0, 0, 0, 5>> \o Records(Bushy)

\* C17: a bytecode whose header-length field holds more than 5, with
\* reserved bytes between that field and the node records, decodes to the
\* tree that the same records decode to behind the minimal header.
C17_ReservedHeaderSkipped ==
  (cpc = "decoded" /\ from_be_bytes(SubSeq(code, 2, 5)) > HeaderLen) =>
    decoded[1] = [ok |-> TRUE, block |-> tree]

\* C18: if0 and ifn0 are called with three values: the three arguments have
\* all been evaluated, in the order c, t, e, whatever c is; if0 returns t
\* when c is Int(0) and e for every other value, ifn0 returns e when c is
\* Int(0) and t otherwise, and neither changes the environment; so
\* ifn0(c, t, e) returns what if0(c, e, t) returns.
C18_If0SelectsValue ==
  /\ [][NativeCall(<<"i", "f", "0">>) =>
          /\ ctl'.m = "pret"
          /\ ctl'.r = Ok(IF ctl.args[1] = LInt(0) THEN ctl.args[2] ELSE ctl.args[3])
          /\ exec_env' = exec_env]_vars
  /\ [][NativeCall(<<"i", "f", "n", "0">>) =>
          /\ ctl'.m = "pret"
          /\ ctl'.r = Ok(IF ctl.args[1] = LInt(0) THEN ctl.args[3] ELSE ctl.args[2])
          /\ exec_env' = exec_env]_vars
  /\ []((epc = "run" /\ ctl.m = "native" /\ ctl.f \in {<<"i", "f", "0">>, <<"i", "f", "n", "0">>} /\ prog.kind = "if0") =>
          /\ Len(Top.pure_exec_args) = 3
          /\ ctl.args = Top.pure_exec_args
          /\ \E p1, p2, p3 \in DOMAIN elog :
               /\ p1 < p2
               /\ p2 < p3
               /\ EventsOf("child", Top.fid) = {p1, p2, p3}
               /\ elog[p1].idx = 1
               /\ elog[p2].idx = 2
               /\ elog[p3].idx = 3)
  /\ []((epc = "done" /\ prog.kind = "if0") =>
          /\ \A i \in 1..3 : ~runs[i].panic /\ runs[i].result.ok
          /\ runs[1].out = <<<<"c">>, <<"t">>, <<"e">>>>
          /\ runs[2].out = <<<<"c">>, <<"t">>, <<"e">>>>
          /\ runs[3].out = <<<<"c">>, <<"e">>, <<"t">>>>
          /\ runs[2].result = runs[3].result)

\* if0 has returned the third value for a condition that is the string "0"
C18_Witness ==
  /\ epc = "run"
  /\ prog.kind = "if0"
  /\ ctl.m = "pret"
  /\ Top.block.proc_name = <<"i", "f", "0">>
  /\ Top.pure_exec_args[1] = LString(<<"0">>)
  /\ ctl.r = Ok(Top.pure_exec_args[3])
  /\ exec_env.out = <<<<"c">>, <<"t">>, <<"e">>>>

\* the distance of the arg-plug p from the top-left corner of blk along the
\* perimeter, clockwise: the top edge, down the right edge, back along the
\* bottom edge, up the left edge
Clockwise(blk, p, mode) ==
  LET w == blk.width - CharLen("TR", mode)
      h == blk.height - 1
  IN CASE p.ori = "Right" -> w + (p.y - blk.y)
       [] p.ori = "Down" -> w + h + (blk.x + w - p.x)
       [] p.ori = "Left" -> w + h + w + (blk.y + h - p.y)

\* the same distance counter-clockwise: down the left edge, along the
\* bottom edge, up the right edge
CounterClockwise(blk, p, mode) ==
  LET w == blk.width - CharLen("TR", mode)
      h == blk.height - 1
  IN CASE p.ori = "Left" -> p.y - blk.y
       [] p.ori = "Down" -> h + (p.x - blk.x)
       [] p.ori = "Right" -> h + w + (blk.y + h - p.y)

\* C19 as stated: the arg_plugs of every found block are in clockwise order
\* around the perimeter, starting from the top-left corner.
C19_ClockwiseOrder ==
  \A i \in 1..Len(blocks) :
    \A j, k \in 1..Len(blocks[i].arg_plugs) :
      j < k => Clockwise(blocks[i], blocks[i].arg_plugs[j], pin.mode)
                 < Clockwise(blocks[i], blocks[i].arg_plugs[k], pin.mode)

\* C19, amended: the arg_plugs of every found block are in counter-clockwise
\* order around the perimeter, starting from the top-left corner: the left
\* edge from top to bottom, the bottom edge from left to right, the right
\* edge from bottom to top.
C19_CounterClockwiseOrder ==
  \A i \in 1..Len(blocks) :
    \A j, k \in 1..Len(blocks[i].arg_plugs) :
      j < k => CounterClockwise(blocks[i], blocks[i].arg_plugs[j], pin.mode)
                 < CounterClockwise(blocks[i], blocks[i].arg_plugs[k], pin.mode)

\* a found block with arg-plugs on its left, bottom and right edges, two of
\* them on the left edge
C19_Witness ==
  /\ ppc = "found"
  /\ \E i \in 1..Len(blocks) :
        LET p == blocks[i].arg_plugs IN
        /\ \E j, k \in 1..Len(p) : j < k /\ p[j].ori = "Left" /\ p[k].ori = "Left"
        /\ \E j \in 1..Len(p) : p[j].ori = "Down"
        /\ \E j \in 1..Len(p) : p[j].ori = "Right"

\* the start columns of the cells of the grid, and one column past them
GridColumns ==
  LET xs == UNION { {splited_code[r][i].x : i \in 1..Len(splited_code[r])}
                    : r \in 1..Len(splited_code) }
  IN xs \cup {x + 1 : x \in xs} \cup {0}

\* C20: get, left_x and right_x never abort and return absent for a row index
\* past the last row, for an x that is not the start column of a cell, for
\* left_x at the first cell of a row and for right_x at the last cell of a
\* row.
C20_QueriesAbsentNeverAbort ==
  \A y \in 0..Len(splited_code) + 1 : \A x \in GridColumns :
    LET l == left_x(splited_code, x, y, build)
        row == Row(splited_code, y)
        i == IF row = None THEN 0 ELSE IndexOfX(row[1], x)
    IN /\ ~l.panic
       /\ i = 0 => /\ get(splited_code, x, y) = None
                   /\ right_x(splited_code, x, y) = None
                   /\ l.v = None
       /\ i = 1 => l.v = None
       /\ (i > 0 /\ i = Len(row[1])) => right_x(splited_code, x, y) = None

\* the characters of the cells of row whose x lies strictly between lo and hi,
\* in column order
Between(row, lo, hi) ==
  LET keep == {i \in 1..Len(row) : row[i].x > lo /\ row[i].x < hi}
      first == IF keep = {} THEN 1 ELSE CHOOSE i \in keep : \A j \in keep : i <= j
  IN [k \in 1..Cardinality(keep) |-> row[first + k - 1].char]

\* C21: get_slice_of_line returns absent whenever x_max is not the start
\* column of a cell of row y, also when it lies beyond the last cell; when
\* x_min and x_max are both start columns of cells of row y it returns the
\* cells strictly between them, concatenated in column order.
C21_SliceAbsentOrBetween ==
  \A y \in 0..Len(splited_code) : \A x_min, x_max \in GridColumns :
    LET row == Row(splited_code, y)
        s == get_slice_of_line(splited_code, x_min, x_max, y)
    IN /\ row = None => s = None
       /\ row # None =>
            /\ IndexOfX(row[1], x_max) = 0 => s = None
            /\ (IndexOfX(row[1], x_min) > 0 /\ IndexOfX(row[1], x_max) > 0)
                 => s = Some(Between(row[1], x_min, x_max))

(***************************************************************************)
(* The command line program: src/trees/src/main.rs.  compile_file,         *)
(* write_compiled_file, from_intermed_repr and execute are taken by their  *)
(* outcome on the input, which the input carries.                          *)
(***************************************************************************)
MaxEntries == 2     \* a directory holds at most this many files

CommandModes == {"Auto", "Compile", "Exec", "ExecD"}

\* Path::extension of the input
Extensions == {None, Some("tr"), Some("trm"), Some("txt")}

\* the files WalkDir yields: the extension and the outcome of
\* write_compiled_file on the file
Entries ==
  [extension : {None, Some("tr"), Some("trm")}, write_compiled_file : {"Ok", "Err"}]

Directories == UNION {[1..n -> Entries] : n \in 0..MaxEntries}

\* the input path: a directory, a file that can be read, with the outcome of
\* each callee on its content, or a path that does not exist
InputPaths ==
  {[kind |-> "dir", extension |-> e, entries |-> d, compile_file |-> "Err",
    from_intermed_repr |-> "panic", execute |-> "Ok"] :
     e \in {None, Some("tr")}, d \in Directories}
  \cup
  {[kind |-> "file", extension |-> e, entries |-> <<>>, compile_file |-> c,
    from_intermed_repr |-> f, execute |-> x] :
     e \in Extensions, c \in {"Ok", "Err"}, f \in {"Ok", "panic"},
     x \in {"Ok", "Err", "panic"}}
  \cup
  {[kind |-> "missing", extension |-> e, entries |-> <<>>, compile_file |-> "Err",
    from_intermed_repr |-> "panic", execute |-> "Ok"] : e \in Extensions}

\* let cli = Cli::parse(); let mut cmd_mode = cli.mode.clone()
InitMain ==
  /\ build \in Builds
  /\ cli \in [mode : CommandModes, input : InputPaths]
  /\ cmd_mode = cli.mode
  /\ mpc = "auto"
  /\ walk = <<>>
  /\ stderr = <<>>
  /\ exit_code = None
  /\ CodecIdle
  /\ ParseIdle
  /\ EvalIdle

\* if cmd_mode == CommandMode::Auto { ... }: a file without extension prints
\* the message and calls exit(-1), status 255
SelectMode ==
  /\ mpc = "auto"
  /\ IF cmd_mode # "Auto"
     THEN /\ mpc' = "match"
          /\ UNCHANGED <<cmd_mode, stderr, exit_code>>
     ELSE IF cli.input.kind = "dir"
     THEN /\ cmd_mode' = "Compile"
          /\ mpc' = "match"
          /\ UNCHANGED <<stderr, exit_code>>
     ELSE IF cli.input.extension = None
     THEN /\ stderr' = Append(stderr, "Cannot determine mode from that file name.")
          /\ exit_code' = Some((0 - 1) % 256)
          /\ mpc' = "exited"
          /\ UNCHANGED cmd_mode
     ELSE /\ cmd_mode' = CASE cli.input.extension = Some("tr") -> "ExecD"
                           [] cli.input.extension = Some("trm") -> "Exec"
                           [] OTHER -> cmd_mode
          /\ mpc' = "match"
          /\ UNCHANGED <<stderr, exit_code>>
  /\ UNCHANGED <<build, cli, walk>>
  /\ UNCHANGED <<codecVars, parseVars, evalVars>>

\* a panic of the main thread: the message goes to stderr, the status is 101
Abort(msg) ==
  /\ stderr' = Append(stderr, "panicked: " \o msg)
  /\ exit_code' = Some(101)
  /\ mpc' = "exited"

\* CommandMode::Auto => unreachable!()
ModeAuto ==
  /\ mpc = "match"
  /\ cmd_mode = "Auto"
  /\ Abort("entered unreachable code")
  /\ UNCHANGED <<build, cli, cmd_mode, walk>>
  /\ UNCHANGED <<codecVars, parseVars, evalVars>>

\* CommandMode::Compile: the directory is walked, a single file is compiled
\* and its error printed
ModeCompile ==
  /\ mpc = "match"
  /\ cmd_mode = "Compile"
  /\ IF cli.input.kind = "dir"
     THEN /\ walk' = cli.input.entries
          /\ mpc' = "walk"
          /\ UNCHANGED stderr
     ELSE /\ stderr' = IF cli.input.compile_file = "Err"
                       THEN Append(stderr, "Error in")
                       ELSE stderr
          /\ mpc' = "return"
          /\ UNCHANGED walk
  /\ UNCHANGED <<build, cli, cmd_mode, exit_code>>
  /\ UNCHANGED <<codecVars, parseVars, evalVars>>

\* one file of the walk: a tr file is compiled and its error printed
WalkNext ==
  /\ mpc = "walk"
  /\ walk # <<>>
  /\ stderr' = IF Head(walk).extension = Some("tr") /\ Head(walk).write_compiled_file = "Err"
               THEN Append(stderr, "Error in")
               ELSE stderr
  /\ walk' = Tail(walk)
  /\ UNCHANGED <<build, cli, cmd_mode, mpc, exit_code>>
  /\ UNCHANGED <<codecVars, parseVars, evalVars>>

\* the walk is over
WalkEnd ==
  /\ mpc = "walk"
  /\ walk = <<>>
  /\ mpc' = "return"
  /\ UNCHANGED <<build, cli, cmd_mode, walk, stderr, exit_code>>
  /\ UNCHANGED <<codecVars, parseVars, evalVars>>

\* CommandMode::Exec: File::open(..).unwrap() and from_intermed_repr
ModeExec ==
  /\ mpc = "match"
  /\ cmd_mode = "Exec"
  /\ IF cli.input.kind = "missing"
     THEN Abort("called Result::unwrap() on an Err value")
     ELSE IF cli.input.from_intermed_repr = "panic"
     THEN Abort("from_intermed_repr")
     ELSE /\ mpc' = "execute"
          /\ UNCHANGED <<stderr, exit_code>>
  /\ UNCHANGED <<build, cli, cmd_mode, walk>>
  /\ UNCHANGED <<codecVars, parseVars, evalVars>>

\* CommandMode::ExecD: compile_file(..).unwrap()
ModeExecD ==
  /\ mpc = "match"
  /\ cmd_mode = "ExecD"
  /\ IF cli.input.compile_file = "Err"
     THEN Abort("called Result::unwrap() on an Err value")
     ELSE /\ mpc' = "execute"
          /\ UNCHANGED <<stderr, exit_code>>
  /\ UNCHANGED <<build, cli, cmd_mode, walk>>
  /\ UNCHANGED <<codecVars, parseVars, evalVars>>

\* match execute(block, includer(parent)) { Ok(_) => {}, Err(err) => print_error(&err) }
ExecuteBlock ==
  /\ mpc = "execute"
  /\ CASE cli.input.execute = "Ok" ->
            /\ mpc' = "return"
            /\ UNCHANGED <<stderr, exit_code>>
       [] cli.input.execute = "Err" ->
            /\ stderr' = Append(stderr, "print_error")
            /\ mpc' = "return"
            /\ UNCHANGED exit_code
       [] cli.input.execute = "panic" -> Abort("execute")
  /\ UNCHANGED <<build, cli, cmd_mode, walk>>
  /\ UNCHANGED <<codecVars, parseVars, evalVars>>

\* main returns: the status is 0
MainReturn ==
  /\ mpc = "return"
  /\ exit_code' = Some(0)
  /\ mpc' = "exited"
  /\ UNCHANGED <<build, cli, cmd_mode, walk, stderr>>
  /\ UNCHANGED <<codecVars, parseVars, evalVars>>

NextMain ==
  \/ SelectMode
  \/ ModeAuto
  \/ ModeCompile
  \/ WalkNext
  \/ WalkEnd
  \/ ModeExec
  \/ ModeExecD
  \/ ExecuteBlock
  \/ MainReturn

SpecMain == InitMain /\ [][NextMain]_vars

\* the process has ended by a panic
Aborted == exit_code = Some(101)

\* C22: in auto mode a directory selects compile, a file with extension tr
\* execd, a file with extension trm exec; every other input makes the
\* program print a message and end with a non-zero exit code, without
\* aborting and without running a mode.
C22_AutoSelectsOrFails ==
  (cli # <<>> /\ cli.mode = "Auto" /\ mpc # "auto") =>
     IF cli.input.kind = "dir" THEN cmd_mode = "Compile"
     ELSE IF cli.input.extension = Some("tr") THEN cmd_mode = "ExecD"
     ELSE IF cli.input.extension = Some("trm") THEN cmd_mode = "Exec"
     ELSE /\ mpc \notin {"walk", "execute", "return"}
          /\ mpc = "exited" => /\ stderr # <<>>
                               /\ exit_code # Some(0)
                               /\ ~Aborted

\* compilation has failed in compile mode
CompilationFails ==
  /\ cmd_mode = "Compile"
  /\ IF cli.input.kind = "dir"
     THEN \E i \in DOMAIN cli.input.entries :
            /\ cli.input.entries[i].extension = Some("tr")
            /\ cli.input.entries[i].write_compiled_file = "Err"
     ELSE cli.input.compile_file = "Err"

\* execute has returned an error in exec or execd mode
EvaluationFails ==
  /\ cli.input.execute = "Err"
  /\ CASE cmd_mode = "Exec" -> cli.input.kind = "file" /\ cli.input.from_intermed_repr = "Ok"
       [] cmd_mode = "ExecD" -> cli.input.compile_file = "Ok"
       [] OTHER -> FALSE

\* C23: the exit code is 0 only if the requested action succeeded: when
\* compilation fails in compile mode, or evaluation returns an error in exec
\* or execd mode, the error is written to stderr and the exit code is
\* non-zero.
C23_ExitZeroOnlyOnSuccess ==
  (mpc = "exited" /\ (CompilationFails \/ EvaluationFails)) =>
     /\ stderr # <<>>
     /\ exit_code # Some(0)

\* the trace at f is in row 0 travelling Up, or in the first cell of its row
\* travelling Left
AtBrink(sc, f) ==
  \/ f.ori = "Up" /\ f.y = 0
  \/ f.ori = "Left" /\ \A i \in 1..Len(sc[f.y + 1]) : sc[f.y + 1][i].x >= f.x

\* the position and direction of the trace
Here == [x |-> conn.mut_x, y |-> conn.mut_y, ori |-> conn.mut_ori]

\* C24: a step of the trace looks at the cell ahead in the direction of
\* travel; the character of that cell and the direction of travel alone give
\* the next direction (Up: V continues, TR turns Left, TL turns Right; Down:
\* V continues, BR turns Left, BL turns Right; Left: H continues, BL turns
\* Up, TL turns Down; Right: H continues, BR turns Up, TR turns Down) and a
\* fragment at that cell is added; any other character or an absent cell
\* stops the trace at that cell and adds no fragment.  (A step that leaves
\* row 0 upwards or the first cell of a row leftwards in a debug build is
\* the case of C25.)
C24_NextDirection ==
  [][(ppc = "tracing" /\ ~(build = "debug" /\ AtBrink(splited_code, Here))) =>
       LET p == Ahead(splited_code, Here)
           c == get(splited_code, p[1], p[2])
       IN IF ~StopsAt(splited_code, Here, p)
          THEN /\ ppc' = "tracing"
               /\ conn'.fragments =
                    Append(conn.fragments,
                           [x |-> p[1], y |-> p[2], ori |-> Turn(conn.mut_ori, c[1].char)])
               /\ conn'.mut_x = p[1]
               /\ conn'.mut_y = p[2]
               /\ conn'.mut_ori = Turn(conn.mut_ori, c[1].char)
          ELSE /\ ppc' = "stopped"
               /\ conn'.fragments = conn.fragments
               /\ conn'.mut_x = p[1]
               /\ conn'.mut_y = p[2]]_vars

\* a trace that has travelled in all four directions and has stopped at a
\* character of the grid
C24_Witness ==
  /\ ppc = "stopped"
  /\ {conn.fragments[i].ori : i \in 1..Len(conn.fragments)} = {"Up", "Down", "Left", "Right"}
  /\ get(splited_code, conn.mut_x, conn.mut_y) # None

\* C25: a trace travelling Up in row 0, or Left in the first cell of a row,
\* stops like any other trace: the step does not abort, the cell it stops at
\* has no wrapped-around coordinate, and parsing reports DanglingArgEdge with
\* that coordinate.
C25_BrinkStops ==
  /\ [][(ppc = "tracing" /\ AtBrink(splited_code, Here)) =>
          /\ ppc' = "stopped"
          /\ conn'.mut_x # UsizeMax
          /\ conn'.mut_y # UsizeMax]_vars
  /\ [][(ppc = "stopped" /\ AtBrink(splited_code, Here)) =>
          /\ presult' # None
          /\ presult'[1].tag = "DanglingArgEdge"
          /\ presult'[1].dangling_position \notin
               {<<conn.mut_x, UsizeMax>>, <<UsizeMax, conn.mut_y>>}]_vars

\* C26: / and % applied to two Ints with divisor 0 fail with an evaluation
\* error: the call returns Err to the calling block and leaves the
\* environment as it was; the interpreter does not abort.
C26_DivisionByZeroIsError ==
  /\ [][((NativeCall(<<"/">>) \/ NativeCall(<<"%">>)) /\ ctl.args[2] = LInt(0)) =>
          /\ ctl'.m = "pret"
          /\ ~ctl'.r.ok
          /\ exec_env' = exec_env]_vars
  /\ []((epc = "done" /\ prog.kind = "arith") => ~runs[1].panic)

\* C27: a built-in called with a number of arguments its parameter list does
\* not admit returns the arity error and does not abort: one with a fixed
\* parameter list unless the count is its parameter count, one with a fixed
\* prefix and a trailing list when the count is less than the prefix,
\* zero included.
C27_ArityMismatchIsError ==
  [][(epc = "run" /\ ctl.m = "native"
        /\ IF Params[ctl.f].rest
           THEN Len(ctl.args) < Len(Params[ctl.f].fixed)
           ELSE Len(ctl.args) # Len(Params[ctl.f].fixed)) =>
       /\ ctl'.m = "pret"
       /\ ctl'.r = Err(OtherError(LengthOfArgs(ctl.f, Len(Params[ctl.f].fixed), Len(ctl.args))))
       /\ exec_env' = exec_env]_vars

\* C28: in the error tree built for a block whose child k failed, every
\* child node i, the node of the failing child included, carries the expand
\* flag and the procedure name of argument i of the block.
C28_ErrorNodeOfArgument ==
  \A p \in DOMAIN elog :
    elog[p].e = "childfail" =>
      \A i \in 1..Len(elog[p].self.args) :
        /\ elog[p].err.root.children[i].expand = elog[p].self.args[i].expand
        /\ elog[p].err.root.children[i].proc_name = elog[p].self.args[i].block.proc_name

\* the grids whose traces are followed to their end: the grids above but
\* the widest one, and GridLoop with one character replaced
TraceInputs ==
  {T \in Templates : T.lines # GridFan} \cup
  UNION { { [lines |-> [GridLoop EXCEPT ![y][i] = t], mode |-> "Mono"] :
              t \in MutTokens, i \in 1..Len(GridLoop[y]) } :
          y \in 1..Len(GridLoop) }

InitTrace ==
  /\ InitParse
  /\ pin \in TraceInputs

\* the tracing loop runs on: an iteration that can be made is not put off
\* forever
SpecParseFair == InitTrace /\ [][NextParse]_vars /\ WF_vars(TraceStep)

\* the (cell, direction) pairs of the trace: the arg-plug it starts from and
\* its fragments
Visited ==
  LET plug == blocks[conn.block_index + 1].arg_plugs[conn.plug + 1]
  IN <<[x |-> plug.x, y |-> plug.y, ori |-> plug.ori]>> \o conn.fragments

\* C29: the tracing loop of connect_blocks terminates for every arg-plug: a
\* trace never comes back to a (cell, direction) pair it has visited, and
\* every trace that has started stops or ends the parse.
C29_TraceTerminates ==
  /\ [](ppc = "tracing" =>
          \A i, j \in 1..Len(Visited) : i < j => Visited[i] # Visited[j])
  /\ (ppc = "tracing") ~> (ppc # "tracing")

\* the edge of a has stopped at the closed loop of GridLoop
C29_Witness ==
  /\ pin.lines = GridLoop
  /\ ppc = "stopped"
  /\ conn.mut_x = 4
  /\ conn.mut_y = 1
  /\ Len(conn.fragments) = 1

\* C30: name resolution is total: for every name, the single double-quote
\* included, bind_name returns a scope binding, a literal or no binding, and
\* the evaluation of the name does not abort.
C30_BindNameTotal ==
  /\ (epc = "run" /\ exec_env.scopes # <<>>) =>
        \A n \in Names : ~bind_name(exec_env, n).panic
  /\ (epc = "done" /\ prog.kind = "name") => ~runs[1].panic

====
